---- MODULE Spec2Model ----
(***************************************************************************)
(* Incremental ingestion of song records into the vector index             *)
(* (src/ingest_qdrant.py, scripts/crawl_ingest_direct.py), the state store *)
(* (src/state_store.py) and the pure helpers they use                      *)
(* (src/preprocess.py, src/load_dataset.py).                               *)
(*                                                                         *)
(* SHA-1 and UUIDv5 are modelled as collision-free digests: the digest of  *)
(* a value is the value under a tag, so two digests are equal exactly when *)
(* their inputs are equal.                                                 *)
(***************************************************************************)
EXTENDS Integers, Sequences, FiniteSets, TLC

\* Optional values: None is the empty tuple, Some(v) is <<v>>; an Optional
\* tuple is the tuple itself
None == <<>>

Min(a, b) == IF a <= b THEN a ELSE b

(***************************************************************************)
(* str: a Python string is kept run-length encoded, as the sequence of its *)
(* maximal runs <<character, length>>.  Two strings are equal exactly when *)
(* their encodings are equal.                                              *)
(***************************************************************************)
Whitespace == {" ", "\n", "\t"}

\* characters matched by [^\w\s஀-௿] in the alphabet of the model
Punct == {"!", ",", "|", ":"}

UpperToLower == [c \in {"A", "B", "K", "M"} |->
                   CASE c = "A" -> "a" [] c = "B" -> "b"
                     [] c = "K" -> "k" [] c = "M" -> "m"]

\* the encoding of a sequence of runs: empty runs dropped, equal neighbours merged
RECURSIVE Norm(_)
Norm(rs) ==
    IF rs = <<>> THEN <<>>
    ELSE LET h    == Head(rs)
             rest == Norm(Tail(rs))
         IN  IF h[2] = 0 THEN rest
             ELSE IF rest # <<>> /\ rest[1][1] = h[1]
                  THEN <<<<h[1], h[2] + rest[1][2]>>>> \o Tail(rest)
                  ELSE <<h>> \o rest

\* the string with the given characters
Lit(chars) == Norm([i \in 1..Len(chars) |-> <<chars[i], 1>>])

\* len(s)
RECURSIVE StrLen(_)
StrLen(s) == IF s = <<>> THEN 0 ELSE s[1][2] + StrLen(Tail(s))

\* a + b
StrCat(a, b) == Norm(a \o b)

\* s[k:] and s[:k] for 0 <= k
RECURSIVE DropChars(_, _)
DropChars(s, k) ==
    IF k = 0 \/ s = <<>> THEN s
    ELSE IF s[1][2] <= k THEN DropChars(Tail(s), k - s[1][2])
    ELSE <<<<s[1][1], s[1][2] - k>>>> \o Tail(s)

RECURSIVE TakeChars(_, _)
TakeChars(s, k) ==
    IF k = 0 \/ s = <<>> THEN <<>>
    ELSE IF s[1][2] <= k THEN <<s[1]>> \o TakeChars(Tail(s), k - s[1][2])
    ELSE <<<<s[1][1], k>>>>

\* s[start:end] for 0 <= start <= end
Slice(s, start, end) == TakeChars(DropChars(s, start), end - start)

\* s with every character in the domain of f replaced by its image
MapChars(s, f) ==
    Norm([i \in 1..Len(s) |->
            <<IF s[i][1] \in DOMAIN f THEN f[s[i][1]] ELSE s[i][1], s[i][2]>>])

\* str.lower()
Lower(s) == MapChars(s, UpperToLower)

RECURSIVE LStrip(_)
LStrip(s) == IF s # <<>> /\ s[1][1] \in Whitespace THEN LStrip(Tail(s)) ELSE s

RECURSIVE RStrip(_)
RStrip(s) ==
    IF s # <<>> /\ s[Len(s)][1] \in Whitespace
    THEN RStrip(SubSeq(s, 1, Len(s) - 1)) ELSE s

\* str.strip()
Strip(s) == RStrip(LStrip(s))

\* sep.join(parts)
RECURSIVE Join(_, _)
Join(sep, parts) ==
    IF parts = <<>> THEN <<>>
    ELSE IF Len(parts) = 1 THEN parts[1]
    ELSE StrCat(StrCat(parts[1], sep), Join(sep, Tail(parts)))

Digits == <<"0", "1", "2", "3", "4", "5", "6", "7", "8", "9">>

\* the digits of str(n) for a non-negative int
RECURSIVE DecimalDigits(_)
DecimalDigits(n) ==
    IF n < 10 THEN <<Digits[n + 1]>>
    ELSE Append(DecimalDigits(n \div 10), Digits[(n % 10) + 1])

\* str(n)
Decimal(n) == Lit(DecimalDigits(n))

(***************************************************************************)
(* digests                                                                 *)
(***************************************************************************)
\* hashlib.sha1(text.encode("utf-8")).hexdigest()
sha1(text) == <<"sha1", text>>

\* hexdigest()[:16]
sha1_16(text) == <<"sha1[:16]", text>>

\* uuid.uuid5(namespace, name)
uuid5(namespace, name) == <<"uuid5", namespace, name>>

(***************************************************************************)
(* src/preprocess.py                                                       *)
(***************************************************************************)
make_song_id(title, singer, movie, year) ==
    sha1_16(Join(Lit(<<"|">>), <<Lower(Strip(title)), Lower(Strip(singer)),
                           Lower(Strip(movie)), Strip(year)>>))

\* _punct_re.sub(" ", t)
PunctToSpace(t) == MapChars(t, [c \in Punct |-> " "])

\* _whitespace_re.sub(" ", t): every maximal run of whitespace becomes one space
CollapseWhitespace(t) ==
    LET u == MapChars(t, [c \in Whitespace |-> " "])
    IN  [i \in 1..Len(u) |-> IF u[i][1] = " " THEN <<" ", 1>> ELSE u[i]]

clean_lyrics(text) ==
    IF text = <<>> THEN <<>>
    ELSE Strip(CollapseWhitespace(PunctToSpace(Strip(text))))

\* the while loop of chunk_text
RECURSIVE ChunkLoop(_, _, _, _, _)
ChunkLoop(text, chunk_size, overlap, start, chunks) ==
    LET n       == StrLen(text)
        end     == Min(start + chunk_size, n)
        chunk   == Strip(Slice(text, start, end))
        chunks2 == IF chunk # <<>> THEN Append(chunks, chunk) ELSE chunks
    IN  IF ~(start < n) THEN chunks
        ELSE IF end = n THEN chunks2
        ELSE ChunkLoop(text, chunk_size, overlap, end - overlap, chunks2)

\* chunk_text raises ValueError
chunk_text_raises(text, chunk_size, overlap) ==
    text # <<>> /\ chunk_size <= overlap

\* the list chunk_text returns when it does not raise
chunk_text(text, chunk_size, overlap) ==
    IF text = <<>> THEN <<>>
    ELSE ChunkLoop(text, chunk_size, overlap, 0, <<>>)

lyrics_hash(cleaned_lyrics) == sha1(cleaned_lyrics)

\* first candidate field that is a non-blank string, else ""
pick_lyrics_field(row) ==
    IF Strip(row.tamil_lyrics) # <<>> THEN row.tamil_lyrics
    ELSE IF Strip(row.english_lyrics) # <<>> THEN row.english_lyrics
    ELSE <<>>

(***************************************************************************)
(* src/load_dataset.py                                                     *)
(***************************************************************************)
MetaKeys == <<"song_title", "singer", "movie_title", "movie_year",
              "primary_mood", "theme_tags", "decade">>

meta_hash(row) ==
    sha1(Join(Lit(<<"|">>), [k \in 1..Len(MetaKeys) |-> Lower(Strip(row[MetaKeys[k]]))]))

\* the record iter_songs yields for one row of the file
SongOfRow(row) ==
    LET cleaned == clean_lyrics(pick_lyrics_field(row))
    IN  [song_id     |-> make_song_id(row.song_title, row.singer,
                                      row.movie_title, row.movie_year),
         lyrics      |-> cleaned,
         lyrics_hash |-> lyrics_hash(cleaned),
         meta_hash   |-> meta_hash(row),
         metadata    |-> [title  |-> row.song_title,
                          singer |-> row.singer,
                          movie  |-> row.movie_title,
                          year   |-> row.movie_year,
                          mood   |-> row.primary_mood,
                          themes |-> row.theme_tags,
                          decade |-> row.decade],
         song_url    |-> None]

(***************************************************************************)
(* scripts/crawl_ingest_direct.py                                          *)
(***************************************************************************)
stable_song_id(song_url) == sha1(song_url)

\* enrich_record; the classifier's answer for the row is the row's
\* primary_mood, theme_tags and decade
EnrichedRecord(row) ==
    LET lyrics == Strip(StrCat(StrCat(Strip(row.tamil_lyrics), Lit(<<"\n">>)),
                               Strip(row.english_lyrics)))
        sid    == IF row.song_url # <<>> THEN stable_song_id(row.song_url)
                  ELSE sha1_16(lyrics)
    IN  [song_id     |-> sid,
         lyrics      |-> lyrics,
         lyrics_hash |-> sha1(lyrics),
         meta_hash   |-> sha1(<<row.decade, row.movie_title, row.movie_year,
                                row.primary_mood, row.singer, row.song_title,
                                row.song_url, row.theme_tags>>),
         metadata    |-> [title  |-> row.song_title,
                          singer |-> row.singer,
                          movie  |-> row.movie_title,
                          year   |-> row.movie_year,
                          mood   |-> row.primary_mood,
                          themes |-> row.theme_tags,
                          decade |-> row.decade],
         song_url    |-> row.song_url]

(***************************************************************************)
(* src/ingest_qdrant.py                                                    *)
(***************************************************************************)
NAMESPACE == "12345678-1234-5678-1234-567812345678"

CHUNK_SIZE == 1200
OVERLAP == 200

\* a variant that leaves the chunk index out of the name
PointName_without_index(song_id, chunk_idx) == <<song_id, Lit(<<":">>)>>

\* f"{song_id}:{chunk_idx}"; a song id is a hex digest, one token without ":"
PointName(song_id, chunk_idx) == <<song_id, StrCat(Lit(<<":">>), Decimal(chunk_idx))>>

make_point_id(song_id, chunk_idx) == uuid5(NAMESPACE, PointName(song_id, chunk_idx))

\* make_point_id of scripts/crawl_ingest_direct.py
crawl_make_point_id(song_id, chunk_idx) ==
    uuid5(NAMESPACE, PointName(song_id, chunk_idx))

(***************************************************************************)
(* Bounds and the universe of rows                                         *)
(***************************************************************************)
NumRows == 2
MaxEdits == 1
MaxChunkIdx == 11

\* 1500 characters that clean_lyrics leaves as they are; the 1200th is a space
LongLyrics == <<<<"a", 1199>>, <<" ", 1>>, <<"a", 300>>>>

\* LongLyrics with one character changed, inside the overlap of its two windows
LongLyrics2 == <<<<"a", 1099>>, <<"b", 1>>, <<"a", 99>>, <<" ", 1>>, <<"a", 300>>>>

ShortLyrics == Lit(<<"a", "b", "!", " ", " ", "c">>)

BlankLyrics == Lit(<<" ">>)

\* <<tamil_lyrics, english_lyrics>> of a row
LyricsPairs == {<<LongLyrics, <<>>>>, <<LongLyrics2, <<>>>>,
                <<<<>>, ShortLyrics>>, <<BlankLyrics, <<>>>>}

\* the lyrics fields of the rows of the file when the deployment starts
InitialPairs == {<<LongLyrics, <<>>>>}

Moods == {Lit(<<"h">>), Lit(<<"s">>)}

RowIds == 1..NumRows

BaseRow(r) ==
    [song_title     |-> StrCat(Lit(<<"K", "a">>), Decimal(r)),
     singer         |-> Lit(<<"A">>),
     movie_title    |-> Lit(<<"M">>),
     movie_year     |-> Lit(<<"2", "0", "0", "3">>),
     primary_mood   |-> Lit(<<"h">>),
     theme_tags     |-> Lit(<<"l">>),
     decade         |-> Lit(<<"2", "0", "0", "0", "s">>),
     song_url       |-> StrCat(Lit(<<"u">>), Decimal(r)),
     tamil_lyrics   |-> <<>>,
     english_lyrics |-> <<>>]

RowWith(r, pair, mood) ==
    [BaseRow(r) EXCEPT !.tamil_lyrics = pair[1], !.english_lyrics = pair[2],
                       !.primary_mood = mood]

Programs == {"ingest_qdrant", "crawl_ingest_direct"}

\* ingest_limit and scan_limit a run of src.ingest_qdrant is started with
IngestLimits == {1, 999999999}
ScanLimits == {None, <<2>>}

(***************************************************************************)
(* State                                                                   *)
(***************************************************************************)
VARIABLES
    dataset,          \* the rows of the JSONL file the pipeline reads
    edits,            \* number of edits made to the file so far
    song_state,       \* rows of table song_state of the state DB
    index,            \* points of the Qdrant collection
    prog,             \* the pipeline this deployment runs
    pc,               \* position of the running process, "idle" when none runs
    status,           \* how the last process ended, "running" while one runs
    ingest_limit, scan_limit,
    scanned, processed, upserted_points,
    song,             \* the record of the current iteration
    is_changed,
    interrupted,      \* history: song ids whose last attempt on the record now
                      \* in the file was cut off before its state commit
    ingested_ok,      \* history: song ids that completed an ingestion
    call, ret         \* the two latest calls of a pure function, their results

vars == <<dataset, edits, song_state, index, prog, pc, status, ingest_limit,
          scan_limit, scanned, processed, upserted_points, song, is_changed,
          interrupted, ingested_ok, call, ret>>

runVars == <<ingest_limit, scan_limit, scanned, processed, upserted_points>>
fnVars == <<call, ret>>
histVars == <<interrupted, ingested_ok>>

NoSong == [song_id |-> None, lyrics |-> <<>>, lyrics_hash |-> None,
           meta_hash |-> None,
           metadata |-> [title |-> None, singer |-> None, movie |-> None,
                         year |-> None, mood |-> None, themes |-> None,
                         decade |-> None],
           song_url |-> None]

(***************************************************************************)
(* src/state_store.py                                                      *)
(***************************************************************************)
\* StateStore.get: the (lyrics_hash, meta_hash) of the row, None without row
StateGet(tbl, song_id) ==
    IF \E row \in tbl : row.song_id = song_id
    THEN LET row == CHOOSE row \in tbl : row.song_id = song_id
         IN  <<row.lyrics_hash, row.meta_hash>>
    ELSE None

\* StateStore.upsert: INSERT ... ON CONFLICT(song_id) DO UPDATE
StateUpsert(tbl, song_id, lh, mh) ==
    {row \in tbl : row.song_id # song_id}
        \cup {[song_id |-> song_id, lyrics_hash |-> lh, meta_hash |-> mh]}

(***************************************************************************)
(* Qdrant client                                                           *)
(***************************************************************************)
\* a variant whose filter only matches the first chunk of the song
delete_song_chunks_first_only(idx, song_id) ==
    {p \in idx : ~(p.payload.song_id = song_id /\ p.payload.chunk_id = 0)}

\* client.delete with a filter on payload field song_id
delete_song_chunks(idx, song_id) ==
    {p \in idx : p.payload.song_id # song_id}

\* client.upsert: a point with an existing id is overwritten
QdrantUpsert(idx, points) ==
    {p \in idx : \A q \in points : q.id # p.id} \cup points

(***************************************************************************)
(* The per-song steps of ingest_qdrant.main and of                         *)
(* crawl_ingest_direct.ingest_record                                       *)
(***************************************************************************)
\* the record the loop of the running pipeline gets for a row
RecordOf(p, row) ==
    IF p = "ingest_qdrant" THEN SongOfRow(row) ELSE EnrichedRecord(row)

is_new_of(prev) == prev = None

\* a variant that also re-ingests when only the metadata hash differs
is_changed_of_meta_too(prev, sng) ==
    prev # None /\ (prev[1] # sng.lyrics_hash \/ prev[2] # sng.meta_hash)

is_changed_of(prev, sng) == prev # None /\ prev[1] # sng.lyrics_hash

\* a variant that embeds the lyrics as one chunk
ChunksOf_unsplit(sng) == IF sng.lyrics = <<>> THEN <<>> ELSE <<sng.lyrics>>

\* chunks = chunk_text(lyrics, chunk_size=1200, overlap=200)
ChunksOf(sng) == chunk_text(sng.lyrics, CHUNK_SIZE, OVERLAP)

PointIdOf(p, song_id, i) ==
    IF p = "ingest_qdrant" THEN make_point_id(song_id, i)
    ELSE crawl_make_point_id(song_id, i)

\* payload of chunk i (0-based) of the song
PayloadOf(p, sng, i, chunk) ==
    LET base == [song_id    |-> sng.song_id,
                 chunk_id   |-> i,
                 mood       |-> sng.metadata.mood,
                 decade     |-> sng.metadata.decade,
                 title      |-> sng.metadata.title,
                 singer     |-> sng.metadata.singer,
                 movie      |-> sng.metadata.movie,
                 year       |-> sng.metadata.year,
                 themes     |-> sng.metadata.themes,
                 chunk_text |-> chunk]
    IN  IF p = "ingest_qdrant" THEN base
        ELSE [k \in DOMAIN base \cup {"song_url"} |->
                 IF k = "song_url" THEN sng.song_url ELSE base[k]]

\* the list of PointStruct built from enumerate(zip(chunks, vectors)); the
\* vector of a point is a function of its chunk_text
BuildPoints(p, sng, chunks) ==
    {[id |-> PointIdOf(p, sng.song_id, i - 1),
      payload |-> PayloadOf(p, sng, i - 1, chunks[i])] : i \in 1..Len(chunks)}

\* the process ends: its locals are gone
Exit(st) ==
    /\ pc' = "idle"
    /\ status' = st
    /\ song' = NoSong
    /\ is_changed' = FALSE
    /\ ingest_limit' = 999999999
    /\ scan_limit' = None
    /\ scanned' = 0
    /\ processed' = 0
    /\ upserted_points' = 0

\* python -m src.ingest_qdrant <dataset> [ingest_limit] [scan_limit], or
\* step 2 of crawl_ingest_direct.main
StartRun(il, sl) ==
    /\ pc = "idle"
    /\ prog = "crawl_ingest_direct" => (il = 999999999 /\ sl = None)
    /\ pc' = "loop"
    /\ status' = "running"
    /\ ingest_limit' = il
    /\ scan_limit' = sl
    /\ scanned' = 0
    /\ processed' = 0
    /\ upserted_points' = 0
    /\ UNCHANGED <<dataset, edits, song_state, index, prog, song, is_changed, histVars, fnVars>>

\* the for loop ends: the iterator has no more rows
Exhausted ==
    /\ pc = "loop"
    /\ scanned = Len(dataset)
    /\ Exit("done")
    /\ UNCHANGED <<dataset, edits, song_state, index, prog, histVars, fnVars>>

\* scanned += 1; if scan_limit is not None and scanned >= scan_limit: break
ScanLimitBreak ==
    /\ pc = "loop"
    /\ scanned < Len(dataset)
    /\ prog = "ingest_qdrant"
    /\ scan_limit # None /\ scanned + 1 >= scan_limit[1]
    /\ Exit("done")
    /\ UNCHANGED <<dataset, edits, song_state, index, prog, histVars, fnVars>>

\* where the iteration goes after prev = state.get(song_id)
AfterDiff(prev, sng) ==
    IF ~(is_new_of(prev) \/ is_changed_of(prev, sng)) THEN "loop"
    ELSE IF is_changed_of(prev, sng) THEN "delete"
    ELSE "chunk"

\* prev = state.get(song_id); is_new; is_changed; continue when neither
Diff ==
    /\ pc = "loop"
    /\ scanned < Len(dataset)
    /\ ~(prog = "ingest_qdrant" /\ scan_limit # None /\ scanned + 1 >= scan_limit[1])
    /\ scanned' = scanned + 1
    /\ LET sng  == RecordOf(prog, dataset[scanned + 1])
           prev == StateGet(song_state, sng.song_id)
       IN  /\ pc' = AfterDiff(prev, sng)
           /\ song' = IF pc' = "loop" THEN NoSong ELSE sng
           /\ is_changed' = (pc' = "delete")
    /\ UNCHANGED <<dataset, edits, song_state, index, prog, status, ingest_limit,
                   scan_limit, processed, upserted_points, histVars, fnVars>>

\* if is_changed: delete_song_chunks(client, song_id)
Delete ==
    /\ pc = "delete"
    /\ index' = delete_song_chunks(index, song.song_id)
    /\ pc' = "chunk"
    /\ UNCHANGED <<dataset, edits, song_state, prog, status, runVars, song,
                   is_changed, histVars, fnVars>>

\* a variant that skips a song without chunks and records nothing
Chunk_without_commit ==
    /\ pc = "chunk"
    /\ IF ChunksOf(song) = <<>>
       THEN /\ pc' = "loop"
            /\ song' = NoSong
            /\ is_changed' = FALSE
            /\ UNCHANGED <<song_state, histVars>>
       ELSE /\ pc' = "embed"
            /\ UNCHANGED <<song_state, song, is_changed, histVars>>
    /\ UNCHANGED <<dataset, edits, index, prog, status, runVars, fnVars>>

\* chunks = chunk_text(...); if not chunks: state.upsert(...); continue
Chunk ==
    /\ pc = "chunk"
    /\ IF ChunksOf(song) = <<>>
       THEN /\ song_state' = StateUpsert(song_state, song.song_id,
                                         song.lyrics_hash, song.meta_hash)
            /\ pc' = "loop"
            /\ song' = NoSong
            /\ is_changed' = FALSE
            /\ interrupted' = interrupted \ {song.song_id}
            /\ ingested_ok' = ingested_ok \cup {song.song_id}
       ELSE /\ pc' = "embed"
            /\ UNCHANGED <<song_state, song, is_changed, histVars>>
    /\ UNCHANGED <<dataset, edits, index, prog, status, runVars, fnVars>>

\* a variant that records the state as soon as the vectors are there
Embed_commits_first ==
    /\ pc = "embed"
    /\ pc' = "upsert"
    /\ song_state' = StateUpsert(song_state, song.song_id,
                                 song.lyrics_hash, song.meta_hash)
    /\ UNCHANGED <<dataset, edits, index, prog, status, runVars,
                   song, is_changed, histVars, fnVars>>

\* vectors = model.encode(chunks, ...) and the points are built
Embed ==
    /\ pc = "embed"
    /\ pc' = "upsert"
    /\ UNCHANGED <<dataset, edits, song_state, index, prog, status, runVars,
                   song, is_changed, histVars, fnVars>>

\* model.encode raises: nothing catches it, the process ends with a traceback
EmbedRaises ==
    /\ pc = "embed"
    /\ Exit("error in encode")
    /\ interrupted' = interrupted \cup {song.song_id}
    /\ UNCHANGED <<dataset, edits, song_state, index, prog, ingested_ok, fnVars>>

\* client.upsert(collection_name=COLLECTION, points=points)
Upsert ==
    /\ pc = "upsert"
    /\ index' = QdrantUpsert(index, BuildPoints(prog, song, ChunksOf(song)))
    /\ upserted_points' = upserted_points + Len(ChunksOf(song))
    /\ pc' = "commit"
    /\ UNCHANGED <<dataset, edits, song_state, prog, status, ingest_limit,
                   scan_limit, scanned, processed, song, is_changed, histVars, fnVars>>

\* client.upsert raises before anything is written: the process ends
UpsertRaises ==
    /\ pc = "upsert"
    /\ Exit("error in upsert")
    /\ interrupted' = interrupted \cup {song.song_id}
    /\ UNCHANGED <<dataset, edits, song_state, index, prog, ingested_ok, fnVars>>

\* state.upsert(...) after the upsert; processed += 1; break at ingest_limit
Commit ==
    /\ pc = "commit"
    /\ song_state' = StateUpsert(song_state, song.song_id,
                                 song.lyrics_hash, song.meta_hash)
    /\ IF prog = "ingest_qdrant" /\ processed + 1 >= ingest_limit
       THEN Exit("done")
       ELSE /\ pc' = "loop"
            /\ processed' = processed + 1
            /\ song' = NoSong
            /\ is_changed' = FALSE
            /\ UNCHANGED <<status, ingest_limit, scan_limit, scanned,
                           upserted_points>>
    /\ interrupted' = interrupted \ {song.song_id}
    /\ ingested_ok' = ingested_ok \cup {song.song_id}
    /\ UNCHANGED <<dataset, edits, index, prog, fnVars>>

\* the process is killed or the machine goes down at any point of a run
Interrupt ==
    /\ pc # "idle"
    /\ Exit("killed")
    /\ interrupted' = IF pc = "loop" THEN interrupted
                      ELSE interrupted \cup {song.song_id}
    /\ UNCHANGED <<dataset, edits, song_state, index, prog, ingested_ok, fnVars>>

\* between runs the lyrics of a row of the file change
EditLyrics(r, pair) ==
    /\ pc = "idle"
    /\ edits < MaxEdits
    /\ <<dataset[r].tamil_lyrics, dataset[r].english_lyrics>> # pair
    /\ dataset' = [dataset EXCEPT ![r].tamil_lyrics = pair[1],
                                  ![r].english_lyrics = pair[2]]
    /\ edits' = edits + 1
    /\ interrupted' = interrupted \ {RecordOf(prog, dataset[r]).song_id}
    /\ UNCHANGED <<song_state, index, prog, pc, status, runVars, song,
                   is_changed, ingested_ok, fnVars>>

\* between runs the metadata of a row of the file changes
EditMeta(r, mood) ==
    /\ pc = "idle"
    /\ edits < MaxEdits
    /\ dataset[r].primary_mood # mood
    /\ dataset' = [dataset EXCEPT ![r].primary_mood = mood]
    /\ edits' = edits + 1
    /\ interrupted' = interrupted \ {RecordOf(prog, dataset[r]).song_id}
    /\ UNCHANGED <<song_state, index, prog, pc, status, runVars, song,
                   is_changed, ingested_ok, fnVars>>

Init ==
    /\ \E f \in [RowIds -> InitialPairs] :
          dataset = [r \in RowIds |-> RowWith(r, f[r], Lit(<<"h">>))]
    /\ edits = 0
    /\ song_state = {}
    /\ index = {}
    /\ prog \in Programs
    /\ pc = "idle"
    /\ status = "done"
    /\ ingest_limit = 999999999
    /\ scan_limit = None
    /\ scanned = 0
    /\ processed = 0
    /\ upserted_points = 0
    /\ song = NoSong
    /\ is_changed = FALSE
    /\ interrupted = {}
    /\ ingested_ok = {}
    /\ call = <<>>
    /\ ret = <<>>

Next ==
    \/ \E il \in IngestLimits, sl \in ScanLimits : StartRun(il, sl)
    \/ Exhausted
    \/ ScanLimitBreak
    \/ Diff
    \/ Delete
    \/ Chunk
    \/ Embed
    \/ EmbedRaises
    \/ Upsert
    \/ UpsertRaises
    \/ Commit
    \/ Interrupt
    \/ \E r \in RowIds, pair \in LyricsPairs : EditLyrics(r, pair)
    \/ \E r \in RowIds, mood \in Moods : EditMeta(r, mood)

Spec == Init /\ [][Next]_vars

(***************************************************************************)
(* scripts/test_loader.py                                                  *)
(***************************************************************************)
LoaderMaxRows == 20

\* the for loop of the script from row i on, count rows handled so far
RECURSIVE LoaderLoop(_, _, _, _)
LoaderLoop(tbl, rows, i, count) ==
    IF i > Len(rows) THEN tbl
    ELSE LET sng  == SongOfRow(rows[i])
             prev == StateGet(tbl, sng.song_id)
             tbl2 == IF prev = None \/ prev[1] # sng.lyrics_hash
                     THEN StateUpsert(tbl, sng.song_id, sng.lyrics_hash, sng.meta_hash)
                     ELSE tbl
         IN  IF count + 1 >= LoaderMaxRows THEN tbl2
             ELSE LoaderLoop(tbl2, rows, i + 1, count + 1)

\* python scripts/test_loader.py while no ingestion runs
TestLoader ==
    /\ pc = "idle"
    /\ song_state' = LoaderLoop(song_state, dataset, 1, 0)
    /\ UNCHANGED <<dataset, edits, index, prog, pc, status, runVars, song,
                   is_changed, histVars, fnVars>>

NextStore == Next \/ TestLoader

\* the ingestion pipelines and the other program that writes the state DB
SpecStore == Init /\ [][NextStore]_vars

(***************************************************************************)
(* Calls of make_point_id                                                  *)
(***************************************************************************)
\* the song ids the two pipelines give the rows of the file
SongIdUniverse == {RecordOf(p, BaseRow(r)).song_id : p \in Programs, r \in RowIds}

\* a call is kept together with the one before it
Latest(new, old) == IF old = <<>> THEN <<new>> ELSE <<new, old[1]>>

CallMakePointId(song_id, chunk_idx) ==
    /\ call' = Latest([fn |-> "ingest_qdrant.make_point_id", song_id |-> song_id,
                       chunk_idx |-> chunk_idx], call)
    /\ ret' = Latest(make_point_id(song_id, chunk_idx), ret)
    /\ UNCHANGED <<dataset, edits, song_state, index, prog, pc, status, runVars,
                   song, is_changed, histVars>>

CallCrawlMakePointId(song_id, chunk_idx) ==
    /\ call' = Latest([fn |-> "crawl_ingest_direct.make_point_id",
                       song_id |-> song_id, chunk_idx |-> chunk_idx], call)
    /\ ret' = Latest(crawl_make_point_id(song_id, chunk_idx), ret)
    /\ UNCHANGED <<dataset, edits, song_state, index, prog, pc, status, runVars,
                   song, is_changed, histVars>>

InitPointId ==
    /\ Init
    /\ prog = "ingest_qdrant"
    /\ \A r \in RowIds : dataset[r] = RowWith(r, <<LongLyrics, <<>>>>, Lit(<<"h">>))

NextPointId ==
    \/ \E sid \in SongIdUniverse, i \in 0..MaxChunkIdx : CallMakePointId(sid, i)
    \/ \E sid \in SongIdUniverse, i \in 0..MaxChunkIdx : CallCrawlMakePointId(sid, i)

SpecPointId == InitPointId /\ [][NextPointId]_vars

(***************************************************************************)
(* Vocabulary of the properties                                            *)
(***************************************************************************)
PointsOfSong(idx, song_id) == {p \in idx : p.payload.song_id = song_id}

\* what a set of points says about chunks: id, chunk index and chunk text
ChunkView(points) ==
    {<<p.id, p.payload.chunk_id, p.payload.chunk_text>> : p \in points}

\* the chunk view of the points the pipeline p builds for lyrics of song_id
ExpectedView(p, song_id, lyrics) ==
    LET chunks == chunk_text(lyrics, CHUNK_SIZE, OVERLAP)
    IN  {<<PointIdOf(p, song_id, i - 1), i - 1, chunks[i]>> : i \in 1..Len(chunks)}

\* the record the loop reads next
NextRecord == RecordOf(prog, dataset[scanned + 1])

\* this step is the diff of the next row of the file
DiffStep == pc = "loop" /\ scanned' = scanned + 1

\* C1: when the diff finds a state row whose lyrics_hash equals the record's
\* (whatever the metadata hash), the song is skipped: the step sends no delete
\* and no upsert, leaves every state row as it is, and the loop goes on to the
\* next row without entering the delete, chunk, embed, upsert or commit step.
C1_UnchangedIsSkipped ==
    [][(/\ DiffStep
        /\ StateGet(song_state, NextRecord.song_id) # None
        /\ StateGet(song_state, NextRecord.song_id)[1] = NextRecord.lyrics_hash)
       => (index' = index /\ song_state' = song_state /\ pc' = "loop")]_vars

\* a song with points in the index was just skipped although its metadata
\* hash differs from the stored one
C1_Witness ==
    /\ pc = "loop"
    /\ scanned >= 1
    /\ LET sng  == RecordOf(prog, dataset[scanned])
           prev == StateGet(song_state, sng.song_id)
       IN  /\ prev # None
           /\ prev[1] = sng.lyrics_hash
           /\ prev[2] # sng.meta_hash
           /\ PointsOfSong(index, sng.song_id) # {}

\* the running pipeline's record for a row with the given lyrics fields
RecordWith(pair) == RecordOf(prog, RowWith(1, pair, Lit(<<"h">>)))

\* C2: between songs and between runs, every state row carries the hash of
\* lyrics whose chunks are exactly the points the index holds for that song.
C2_StateMatchesIndex ==
    pc \in {"idle", "loop"} =>
        \A row \in song_state :
            \E pair \in LyricsPairs :
                /\ RecordWith(pair).lyrics_hash = row.lyrics_hash
                /\ ChunkView(PointsOfSong(index, row.song_id))
                     = ExpectedView(prog, row.song_id, RecordWith(pair).lyrics)

\* steps of the loop, told by the position they leave and the one they reach
DeleteStep == pc = "delete" /\ pc' = "chunk"
UpsertStep == pc = "upsert" /\ pc' = "commit"
CommitStep == pc = "commit" /\ status' \in {"running", "done"}
ZeroChunksStep == pc = "chunk" /\ pc' = "loop"
ErrorStatuses == {"error in encode", "error in upsert"}

\* C3: for a song with at least one chunk the state row is written only by
\* the step that follows the successful upsert of the same attempt, when all
\* its points are in the index, and only that song's row is written; a step
\* in which encode or upsert raises writes no state and ends the attempt.
C3_CommitOnlyAfterUpsert ==
    [][/\ (song_state' # song_state /\ ~ZeroChunksStep) =>
              /\ pc = "commit"
              /\ BuildPoints(prog, song, ChunksOf(song)) \subseteq index
              /\ song_state' = StateUpsert(song_state, song.song_id,
                                           song.lyrics_hash, song.meta_hash)
       /\ (pc' = "commit" /\ pc # "commit") =>
              /\ pc = "upsert"
              /\ BuildPoints(prog, song, ChunksOf(song)) \subseteq index'
       /\ (status' \in ErrorStatuses /\ status = "running") =>
              (song_state' = song_state /\ pc' = "idle")]_vars

\* a later song of the run is being handled after an earlier one was committed
\* behind its upsert: its points are indexed and its row carries its hash
C3_Witness ==
    /\ processed >= 1
    /\ pc = "loop"
    /\ LET sng == RecordOf(prog, dataset[scanned])
       IN  /\ ChunksOf(sng) # <<>>
           /\ BuildPoints(prog, sng, ChunksOf(sng)) \subseteq index
           /\ StateGet(song_state, sng.song_id) = <<sng.lyrics_hash, sng.meta_hash>>

\* C4: a record whose last attempt was cut off before its commit is classified
\* NEW or CHANGED when it is read again, and when that attempt commits the
\* index holds exactly the points of the record's lyrics and the state their
\* hash.
C4_RetryConverges ==
    [][/\ (DiffStep /\ NextRecord.song_id \in interrupted) =>
              pc' \in {"delete", "chunk"}
       /\ ((CommitStep \/ ZeroChunksStep) /\ song.song_id \in interrupted) =>
              /\ ChunkView(PointsOfSong(index', song.song_id))
                   = ExpectedView(prog, song.song_id, song.lyrics)
              /\ StateGet(song_state', song.song_id)
                   = <<song.lyrics_hash, song.meta_hash>>]_vars

\* C5: a CHANGED song goes to the delete step first; the delete removes every
\* point of that song and no point of another song; no point of the song is
\* in the index when its new points are written; after its commit the index
\* holds exactly the points of the new lyrics for that song.
C5_ChangedDeletesFirst ==
    [][/\ (DiffStep /\ is_changed_of(StateGet(song_state, NextRecord.song_id),
                                     NextRecord)) => pc' = "delete"
       /\ DeleteStep =>
              /\ PointsOfSong(index', song.song_id) = {}
              /\ index' = index \ PointsOfSong(index, song.song_id)
       /\ (UpsertStep /\ is_changed) => PointsOfSong(index, song.song_id) = {}
       /\ (CommitStep /\ is_changed) =>
              ChunkView(PointsOfSong(index', song.song_id))
                = ExpectedView(prog, song.song_id, song.lyrics)]_vars

\* a CHANGED song whose old lyrics had two chunks and whose new lyrics have
\* one is about to commit: the index holds its one new point and nothing else
\* of it, while another song keeps its points
C5_Witness ==
    /\ pc = "commit"
    /\ is_changed
    /\ Len(ChunksOf(song)) = 1
    /\ StateGet(song_state, song.song_id) # None
    /\ StateGet(song_state, song.song_id)[1] = RecordWith(<<LongLyrics, <<>>>>).lyrics_hash
    /\ PointsOfSong(index, song.song_id) = BuildPoints(prog, song, ChunksOf(song))
    /\ index # PointsOfSong(index, song.song_id)

\* C6: a NEW or CHANGED song without chunks gets its row written with its
\* lyrics_hash and meta_hash, the step writes no point, and the same record
\* read again against the new state is UNCHANGED.
C6_ZeroChunksCommitted ==
    [][(pc = "chunk" /\ ChunksOf(song) = <<>> /\ status' = "running") =>
          /\ StateGet(song_state', song.song_id) = <<song.lyrics_hash, song.meta_hash>>
          /\ index' = index
          /\ pc' = "loop"
          /\ AfterDiff(StateGet(song_state', song.song_id), song) = "loop"]_vars

\* the loop has just passed a record without chunks that is committed and has
\* no point in the index
C6_Witness ==
    /\ pc = "loop"
    /\ scanned >= 1
    /\ LET sng == RecordOf(prog, dataset[scanned])
       IN  /\ ChunksOf(sng) = <<>>
           /\ sng.song_id \in ingested_ok
           /\ StateGet(song_state, sng.song_id) = <<sng.lyrics_hash, sng.meta_hash>>
           /\ PointsOfSong(index, sng.song_id) = {}

\* C7: when encode or upsert raises for a song, the run goes on with the next
\* row and the song is left without a state commit.
C7_ErrorIsCaught ==
    [][(pc \in {"embed", "upsert"} /\ status' \in ErrorStatuses) =>
          (pc' = "loop" /\ song_state' = song_state)]_vars

\* C8: song_state holds a row for a song id exactly when an ingestion of that
\* song has completed (its points upserted, or it had no chunks), whichever
\* program has written the state DB.
C8_RowIffIngested ==
    {row.song_id : row \in song_state} = ingested_ok

Long1 == RecordWith(<<LongLyrics, <<>>>>)
Long2 == RecordWith(<<LongLyrics2, <<>>>>)

\* C9: with the 1500 characters of LongLyrics, chunk_size 1200 and overlap 200:
\* the first upsert of the song (no row, no point yet) adds exactly the two
\* points make_point_id(song_id, 0) and make_point_id(song_id, 1), two different
\* ids, and its commit writes the row; the same record read again against that
\* row writes nothing; the record with one character changed read against
\* that row goes to the delete, which removes the two old points and nothing
\* else, its upsert adds two points, the chunks of the new lyrics, and its
\* commit replaces the row's lyrics_hash by the new hash.
C9_EndToEnd ==
    [][/\ (/\ UpsertStep
           /\ song.lyrics = Long1.lyrics
           /\ PointsOfSong(index, song.song_id) = {}
           /\ StateGet(song_state, song.song_id) = None) =>
              LET new == index' \ index
              IN  /\ index \subseteq index'
                  /\ Cardinality(new) = 2
                  /\ {p.id : p \in new} = {PointIdOf(prog, song.song_id, 0),
                                           PointIdOf(prog, song.song_id, 1)}
                  /\ PointIdOf(prog, song.song_id, 0) # PointIdOf(prog, song.song_id, 1)
                  /\ new = PointsOfSong(index', song.song_id)
       /\ (CommitStep /\ song.lyrics \in {Long1.lyrics, Long2.lyrics}) =>
              StateGet(song_state', song.song_id) = <<song.lyrics_hash, song.meta_hash>>
       /\ (/\ DiffStep
           /\ NextRecord.lyrics = Long1.lyrics
           /\ StateGet(song_state, NextRecord.song_id) # None
           /\ StateGet(song_state, NextRecord.song_id)[1] = Long1.lyrics_hash) =>
              (index' = index /\ song_state' = song_state /\ pc' = "loop")
       /\ (/\ DiffStep
           /\ NextRecord.lyrics = Long2.lyrics
           /\ StateGet(song_state, NextRecord.song_id) # None
           /\ StateGet(song_state, NextRecord.song_id)[1] = Long1.lyrics_hash) =>
              pc' = "delete"
       /\ (/\ DeleteStep
           /\ song.lyrics = Long2.lyrics
           /\ ChunkView(PointsOfSong(index, song.song_id))
                = ExpectedView(prog, song.song_id, Long1.lyrics)) =>
              /\ index' \subseteq index
              /\ Cardinality(index \ index') = 2
              /\ index \ index' = PointsOfSong(index, song.song_id)
       /\ (UpsertStep /\ is_changed /\ song.lyrics = Long2.lyrics) =>
              /\ index \subseteq index'
              /\ Cardinality(index' \ index) = 2
              /\ ChunkView(index' \ index)
                   = ExpectedView(prog, song.song_id, Long2.lyrics)
       /\ (CommitStep /\ is_changed /\ song.lyrics = Long2.lyrics) =>
              /\ StateGet(song_state', song.song_id)[1] = Long2.lyrics_hash
              /\ StateGet(song_state', song.song_id)[1] # Long1.lyrics_hash]_vars

\* the third ingest is about to commit: the song was ingested before, its row
\* still carries the hash of the old 1500 characters, the record has one
\* character changed, the old points are gone and the two new ones are in
C9_Witness ==
    /\ pc = "commit"
    /\ is_changed
    /\ song.lyrics = Long2.lyrics
    /\ song.song_id \in ingested_ok
    /\ StateGet(song_state, song.song_id) # None
    /\ StateGet(song_state, song.song_id)[1] = Long1.lyrics_hash
    /\ Cardinality(PointsOfSong(index, song.song_id)) = 2
    /\ ChunkView(PointsOfSong(index, song.song_id))
         = ExpectedView(prog, song.song_id, Long2.lyrics)

\* C10: two calls of make_point_id (of either copy) with the same song_id and
\* chunk index return the same id, and two calls with the same song_id and
\* different chunk indices return different ids.
C10_PointIdDeterministic ==
    \A a, b \in 1..Len(call) :
        call[a].song_id = call[b].song_id =>
            IF call[a].chunk_idx = call[b].chunk_idx
            THEN ret[a] = ret[b]
            ELSE ret[a] # ret[b]

\* the copy in crawl_ingest_direct and the one in ingest_qdrant were called
\* with the same song id and chunk index 11 and returned the same id
C10_Witness ==
    /\ Len(call) = 2
    /\ call[1].fn # call[2].fn
    /\ call[1].song_id = call[2].song_id
    /\ call[1].chunk_idx = 11
    /\ call[2].chunk_idx = 11
    /\ ret[1] = ret[2]

(***************************************************************************)
(* Calls of chunk_text, one iteration of its while loop per step           *)
(***************************************************************************)
MaxRun == 3
MaxChunkSize == 4

\* texts of up to 3 * MaxRun characters with whitespace at any place
ChunkTexts ==
    {Norm(<<<<c1, i>>, <<c2, j>>, <<c1, m>>>>) :
        c1 \in {"a", " "}, c2 \in {"a", " "}, i \in 0..MaxRun, j \in 0..MaxRun,
        m \in 0..MaxRun}

\* a variant that starts the next window where the last one ended
NextStart_without_overlap(end, overlap) == end

\* start = end - overlap
NextStart(end, overlap) == end - overlap

NoCall == <<>>

\* chunk_text(text, chunk_size, overlap) up to the first test of the loop
ChunkTextCall(text, chunk_size, overlap) ==
    /\ call = NoCall
    /\ call' = [fn |-> "chunk_text", text |-> text, chunk_size |-> chunk_size,
                overlap |-> overlap, n |-> StrLen(text), start |-> 0,
                pc |-> IF text = <<>> THEN "returned"
                       ELSE IF chunk_size <= overlap THEN "raised"
                       ELSE "while"]
    /\ ret' = [chunks |-> <<>>, windows |-> <<>>]
    /\ UNCHANGED <<dataset, edits, song_state, index, prog, pc, status, runVars,
                   song, is_changed, histVars>>

\* one pass through the body of the while loop; ret.windows keeps the
\* <<start, end>> of every slice taken
ChunkTextIter ==
    /\ call # NoCall
    /\ call.pc = "while"
    /\ IF call.start < call.n
       THEN LET end   == Min(call.start + call.chunk_size, call.n)
                chunk == Strip(Slice(call.text, call.start, end))
            IN  /\ ret' = [chunks  |-> IF chunk # <<>>
                                       THEN Append(ret.chunks, chunk)
                                       ELSE ret.chunks,
                           windows |-> Append(ret.windows, <<call.start, end>>)]
                /\ call' = IF end = call.n
                           THEN [call EXCEPT !.pc = "returned"]
                           ELSE [call EXCEPT !.start = NextStart(end, call.overlap)]
       ELSE /\ call' = [call EXCEPT !.pc = "returned"]
            /\ UNCHANGED ret
    /\ UNCHANGED <<dataset, edits, song_state, index, prog, pc, status, runVars,
                   song, is_changed, histVars>>

InitChunk == InitPointId

NextChunk ==
    \/ \E text \in ChunkTexts, cs \in 1..MaxChunkSize, ov \in 0..MaxChunkSize :
          ChunkTextCall(text, cs, ov)
    \/ ChunkTextIter

\* a started loop iteration is carried out
SpecChunk == InitChunk /\ [][NextChunk]_vars /\ WF_vars(ChunkTextIter)

\* C11: a call of chunk_text with chunk_size <= overlap never ends by
\* returning a list; it ends with the ValueError, whatever the text, the empty
\* string included.
C11_InvalidConfigRaises ==
    (call # NoCall /\ call.chunk_size <= call.overlap) => call.pc = "raised"

\* the windows of the call so far start at 0, step, 2 * step, ..., none is
\* longer than chunk_size, and all but the last have chunk_size characters
WindowsRegular ==
    \A i \in 1..Len(ret.windows) :
        LET w == ret.windows[i]
        IN  /\ w[1] = (i - 1) * (call.chunk_size - call.overlap)
            /\ w[2] - w[1] <= call.chunk_size
            /\ w[1] < w[2]
            /\ i < Len(ret.windows) => w[2] - w[1] = call.chunk_size

\* the windows of a returned call end at len(text) and leave no position out
WindowsCover ==
    /\ call.n > 0 => ret.windows # <<>> /\ ret.windows[Len(ret.windows)][2] = call.n
    /\ \A pos \in 0..(call.n - 1) :
          \E i \in 1..Len(ret.windows) :
              ret.windows[i][1] <= pos /\ pos < ret.windows[i][2]

\* C12: for chunk_size > overlap >= 0 the windows chunk_text slices start at
\* 0, step, 2 * step, ... with step = chunk_size - overlap, have at most
\* chunk_size characters and exactly chunk_size unless final; when the call
\* returns the final window ends at len(text) and every position is in some
\* window; and every call that enters the loop returns.
C12_WindowsCoverText ==
    /\ [](call # NoCall /\ call.chunk_size > call.overlap =>
            /\ WindowsRegular
            /\ call.pc # "raised"
            /\ call.pc = "returned" =>
                  /\ WindowsCover
                  /\ ret.chunks = chunk_text(call.text, call.chunk_size, call.overlap))
    /\ ((call # NoCall /\ call.pc = "while") ~> (call # NoCall /\ call.pc = "returned"))

\* a call returned after three windows or more, the last one a short one,
\* with overlapping windows
C12_Witness ==
    /\ call # NoCall
    /\ call.pc = "returned"
    /\ call.overlap > 0
    /\ Len(ret.windows) >= 3
    /\ LET w == ret.windows[Len(ret.windows)] IN w[2] - w[1] < call.chunk_size
    /\ Len(ret.chunks) < Len(ret.windows)

(***************************************************************************)
(* Retrieval: src/playlist_builder.py and src/search_qdrant.py             *)
(*                                                                         *)
(* A similarity score is an integer, the number of 1e-5 units.  A hit is   *)
(* [score, payload].  A dict is the sequence of its entries in insertion   *)
(* order.  None and "" are both the empty tuple: the code only tests them  *)
(* with "not".                                                             *)
(***************************************************************************)
MaxHits == 3
MaxK == 2

SongA == Lit(<<"A">>)
SongB == Lit(<<"B">>)
SongC == Lit(<<"C">>)
SongZ == Lit(<<"Z">>)

Scores == {50000, 70000, 90000}

\* a payload as the ingestion writes it; song_id or mood may be missing
HitPayload(sid, mood, chunk_id) ==
    [song_id |-> sid, chunk_id |-> chunk_id, mood |-> mood,
     decade |-> Lit(<<"2", "0", "0", "0", "s">>), title |-> sid,
     singer |-> Lit(<<"A">>), movie |-> Lit(<<"M">>),
     year |-> Lit(<<"2", "0", "0", "3">>), themes |-> Lit(<<"l">>),
     chunk_text |-> Lit(<<"a">>)]

\* round(score, 4) for a score whose fifth decimal is not 5
Round4(score) == ((score + 5) \div 10) * 10

\* a variant that gives every item there is
PySliceTo_everything(seq, k) == seq

\* seq[:k] for 0 <= k
PySliceTo(seq, k) == SubSeq(seq, 1, Min(k, Len(seq)))

\* position of key sid in the dict, 0 when absent
RECURSIVE DictIndex(_, _, _)
DictIndex(best, sid, i) ==
    IF i > Len(best) THEN 0
    ELSE IF best[i].song_id = sid THEN i
    ELSE DictIndex(best, sid, i + 1)

\* best[sid] = entry: a new key goes last, an old key keeps its place
DictPut(best, sid, entry) ==
    LET j == DictIndex(best, sid, 1)
    IN  IF j = 0 THEN Append(best, entry) ELSE [best EXCEPT ![j] = entry]

\* for h in hits: skip a hit without song_id; keep the hit when its song is
\* new or its score is greater than the kept one
RECURSIVE BestByKey(_, _, _)
BestByKey(hits, i, best) ==
    IF i > Len(hits) THEN best
    ELSE LET sid == hits[i].payload.song_id
             j   == DictIndex(best, sid, 1)
             b2  == IF sid = <<>> THEN best
                    ELSE IF j = 0 \/ hits[i].score > best[j].score
                         THEN DictPut(best, sid, [song_id |-> sid,
                                  score |-> hits[i].score,
                                  payload |-> hits[i].payload])
                         ELSE best
         IN  BestByKey(hits, i + 1, b2)

\* x put behind the last element whose score is not smaller
RECURSIVE InsertDesc(_, _)
InsertDesc(sorted, x) ==
    IF sorted = <<>> THEN <<x>>
    ELSE IF Head(sorted).score >= x.score
         THEN <<Head(sorted)>> \o InsertDesc(Tail(sorted), x)
         ELSE <<x>> \o sorted

\* sorted(seq, key=score, reverse=True): stable
RECURSIVE SortedDesc(_)
SortedDesc(seq) ==
    IF seq = <<>> THEN <<>>
    ELSE InsertDesc(SortedDesc(SubSeq(seq, 1, Len(seq) - 1)), seq[Len(seq)])

\* (song_id, (score, payload)) of the entries of a dict
DictItems(best) ==
    [i \in 1..Len(best) |-> <<best[i].song_id, <<best[i].score, best[i].payload>>>>]

\* a variant that returns the songs in first-seen order
collapse_to_unique_songs_unsorted(hits, k) ==
    PySliceTo(DictItems(BestByKey(hits, 1, <<>>)), k)

\* the list of (song_id, (score, payload)) items
collapse_to_unique_songs(hits, k) ==
    PySliceTo(DictItems(SortedDesc(BestByKey(hits, 1, <<>>))), k)

\* lines 43-67 of search_songs: the list of result dicts
SearchSongsCollapse(hits, top_k_songs) ==
    LET out == SortedDesc(BestByKey(hits, 1, <<>>))
    IN  PySliceTo([i \in 1..Len(out) |->
                     [score      |-> out[i].score,
                      song_id    |-> out[i].song_id,
                      title      |-> out[i].payload.title,
                      movie      |-> out[i].payload.movie,
                      year       |-> out[i].payload.year,
                      mood       |-> out[i].payload.mood,
                      decade     |-> out[i].payload.decade,
                      themes     |-> out[i].payload.themes,
                      best_chunk |-> TakeChars(out[i].payload.chunk_text, 240)]],
                  top_k_songs)

(***************************************************************************)
(* Calls of the two collapse loops on a list of hits                       *)
(***************************************************************************)
HitUniverse ==
    {[score |-> sc, payload |-> HitPayload(sid, Lit(<<"h">>), 0)] :
        sid \in {SongA, SongB, <<>>}, sc \in Scores}

HitLists == UNION {[1..n -> HitUniverse] : n \in 0..MaxHits}

CallCollapse(hits, k) ==
    /\ call = NoCall
    /\ call' = [fn |-> "collapse_to_unique_songs", hits |-> hits, k |-> k,
                pc |-> "returned"]
    /\ ret' = LET items == collapse_to_unique_songs(hits, k)
              IN  [i \in 1..Len(items) |->
                     [song_id |-> items[i][1], score |-> items[i][2][1]]]
    /\ UNCHANGED <<dataset, edits, song_state, index, prog, pc, status, runVars,
                   song, is_changed, histVars>>

CallSearchSongsCollapse(hits, k) ==
    /\ call = NoCall
    /\ call' = [fn |-> "search_songs", hits |-> hits, k |-> k, pc |-> "returned"]
    /\ ret' = SearchSongsCollapse(hits, k)
    /\ UNCHANGED <<dataset, edits, song_state, index, prog, pc, status, runVars,
                   song, is_changed, histVars>>

NextCollapse ==
    \/ \E hits \in HitLists, k \in 0..MaxK : CallCollapse(hits, k)
    \/ \E hits \in HitLists, k \in 0..MaxK : CallSearchSongsCollapse(hits, k)

SpecCollapse == InitPointId /\ [][NextCollapse]_vars

\* the song ids that occur in a list of hits
SongsOf(hits) == {hits[i].payload.song_id : i \in 1..Len(hits)} \ {<<>>}

\* the greatest score among the hits of a song
MaxScoreOf(hits, sid) ==
    CHOOSE m \in {hits[i].score : i \in {j \in 1..Len(hits) : hits[j].payload.song_id = sid}} :
        \A i \in 1..Len(hits) : hits[i].payload.song_id = sid => hits[i].score <= m

\* position of the first hit of a song
FirstSeenOf(hits, sid) ==
    CHOOSE i \in 1..Len(hits) :
        /\ hits[i].payload.song_id = sid
        /\ \A j \in 1..(i - 1) : hits[j].payload.song_id # sid

\* song s comes before song t in the ranking of the hits
RanksBefore(hits, s, t) ==
    \/ MaxScoreOf(hits, s) > MaxScoreOf(hits, t)
    \/ /\ MaxScoreOf(hits, s) = MaxScoreOf(hits, t)
       /\ FirstSeenOf(hits, s) < FirstSeenOf(hits, t)

\* items is the top k of the ranking of the hits, each item with the greatest
\* hit score of its song, rounded to four decimals when rounded is TRUE
IsTopKWith(items, hits, k, rounded) ==
    /\ Len(items) = Min(k, Cardinality(SongsOf(hits)))
    /\ \A i \in 1..Len(items) :
          /\ items[i].song_id \in SongsOf(hits)
          /\ items[i].score = IF rounded
                               THEN Round4(MaxScoreOf(hits, items[i].song_id))
                               ELSE MaxScoreOf(hits, items[i].song_id)
    /\ \A i \in 1..Len(items) : \A j \in (i + 1)..Len(items) :
          RanksBefore(hits, items[i].song_id, items[j].song_id)
    /\ \A s \in SongsOf(hits) :
          (\A i \in 1..Len(items) : items[i].song_id # s) =>
              \A i \in 1..Len(items) : RanksBefore(hits, items[i].song_id, s)

IsTopK(items, hits, k) == IsTopKWith(items, hits, k, FALSE)

\* C13: for every list of hits and every k, collapse_to_unique_songs and the
\* loop of search_songs return one entry per song_id of the hits, with the
\* greatest score of the song's hits, by score descending, equal scores in
\* first-seen order, cut to the first k.
C13_CollapseIsTopK ==
    call # NoCall => IsTopK(ret, call.hits, call.k)

\* collapse_to_unique_songs of [(A, 0.9), (A, 0.5), (B, 0.7)] gave
\* [(A, 0.9), (B, 0.7)]
C13_Witness ==
    /\ call # NoCall
    /\ call.fn = "collapse_to_unique_songs"
    /\ call.k = 2
    /\ Len(call.hits) = 3
    /\ call.hits[1].payload.song_id = SongA /\ call.hits[1].score = 90000
    /\ call.hits[2].payload.song_id = SongA /\ call.hits[2].score = 50000
    /\ call.hits[3].payload.song_id = SongB /\ call.hits[3].score = 70000
    /\ ret = <<[song_id |-> SongA, score |-> 90000],
               [song_id |-> SongB, score |-> 70000]>>

(***************************************************************************)
(* The Qdrant client as the retrieval functions use it                     *)
(***************************************************************************)
\* _mood_filter: no filter for None or "", else equality on payload mood
Matches(p, mood) == mood = <<>> \/ p.payload.mood = mood

\* a variant that returns the points in any order
SortedSeqs_any_order(S, sc) ==
    {q \in [1..Cardinality(S) -> S] : \A i, j \in 1..Cardinality(S) : i # j => q[i] # q[j]}

\* the orders in which the points of S can come back: by score descending,
\* points of equal score in any order
RECURSIVE SortedSeqs(_, _)
SortedSeqs(S, sc) ==
    IF S = {} THEN {<<>>}
    ELSE UNION {{<<p>> \o q : q \in SortedSeqs(S \ {p}, sc)} :
                   p \in {p \in S : \A o \in S : sc[p] >= sc[o]}}

\* client.search(query_vector, limit, query_filter, with_payload): the lists
\* of hits it can return when sc[p] is the similarity of point p to the vector
ClientSearch(idx, sc, limit, mood) ==
    {[i \in 1..Min(limit, Len(q)) |-> [score |-> sc[q[i]], payload |-> q[i].payload]] :
        q \in SortedSeqs({p \in idx : Matches(p, mood)}, sc)}

\* client.scroll(scroll_filter=song_id, limit=1): the lists of points it can
\* return
ClientScrollOne(idx, song_id) ==
    IF PointsOfSong(idx, song_id) = {} THEN {<<>>}
    ELSE {<<p>> : p \in PointsOfSong(idx, song_id)}

(***************************************************************************)
(* src/playlist_builder.py                                                 *)
(***************************************************************************)
\* get_song_mood for the points the scroll returned
get_song_mood(points) == IF points = <<>> THEN None ELSE points[1].payload.mood

\* get_seed_vector returns a vector: a stored point has a non-empty one
get_seed_vector_found(points) == points # <<>>

\* a variant in which the loop collects every song of the hits
SeedBestBySong_every_song(hits, seed_song_id) == BestByKey(hits, 1, <<>>)

\* best_by_song of build_playlist_from_seed after lines 149-165: the dedup
\* loop is inside a string literal, the dict stays empty
SeedBestBySong(hits, seed_song_id) == <<>>

\* the dict build_playlist_from_seed returns; scrolled and scrolled2 are the
\* results of the two scrolls, hits the result of the search
build_playlist_from_seed(seed_song_id, limit_songs, scrolled, scrolled2, hits) ==
    LET mood     == get_song_mood(scrolled)
        best     == SeedBestBySong(hits, seed_song_id)
        sorted   == SortedDesc(best)
        playlist == PySliceTo([i \in 1..Len(sorted) |->
                                  [score   |-> sorted[i].score,
                                   song_id |-> sorted[i].song_id,
                                   title   |-> sorted[i].payload.title,
                                   movie   |-> sorted[i].payload.movie,
                                   year    |-> sorted[i].payload.year,
                                   mood    |-> sorted[i].payload.mood,
                                   decade  |-> sorted[i].payload.decade]],
                              limit_songs)
    IN  IF mood = <<>>
        THEN [ok |-> FALSE, error |-> "Seed song_id not found in Qdrant",
              seed_song_id |-> seed_song_id]
        ELSE IF ~get_seed_vector_found(scrolled2)
        THEN [ok |-> FALSE, error |-> "Could not read seed vector",
              seed_song_id |-> seed_song_id]
        ELSE [ok |-> TRUE, seed_song_id |-> seed_song_id, mood |-> mood,
              count |-> Len(playlist), items |-> playlist]

\* the for loop of build_playlist_from_query from hit i on
RECURSIVE QueryLoop(_, _, _, _, _)
QueryLoop(hits, i, seen_song_ids, playlist, k) ==
    IF i > Len(hits) THEN playlist
    ELSE LET song_id == hits[i].payload.song_id
         IN  IF song_id = <<>> \/ song_id \in seen_song_ids
             THEN QueryLoop(hits, i + 1, seen_song_ids, playlist, k)
             ELSE LET playlist2 ==
                          Append(playlist, [score   |-> Round4(hits[i].score),
                                            song_id |-> song_id,
                                            title   |-> hits[i].payload.title,
                                            movie   |-> hits[i].payload.movie,
                                            mood    |-> hits[i].payload.mood])
                  IN  IF Len(playlist2) >= k THEN playlist2
                      ELSE QueryLoop(hits, i + 1, seen_song_ids \cup {song_id},
                                     playlist2, k)

\* lines 209-230 of build_playlist_from_query
build_playlist_from_query(hits, k) == QueryLoop(hits, 1, {}, <<>>, k)

(***************************************************************************)
(* Calls of the retrieval functions on an index                            *)
(***************************************************************************)
IndexPoint(sid, mood, chunk_id) ==
    [id |-> make_point_id(sid, chunk_id), payload |-> HitPayload(sid, mood, chunk_id)]

\* two chunks of song A and one of song B with the same mood, a song of
\* another mood, and a song whose rows carry no mood
PlaylistPoints ==
    {IndexPoint(SongA, Lit(<<"h">>), 0), IndexPoint(SongA, Lit(<<"h">>), 1),
     IndexPoint(SongB, Lit(<<"h">>), 0), IndexPoint(SongC, Lit(<<"s">>), 0),
     IndexPoint(SongZ, <<>>, 0)}

SeedIds == {SongA, SongB, SongC, SongZ}

MoodArgs == {<<>>, Lit(<<"h">>), Lit(<<"s">>)}

\* similarities with a fifth decimal and with ties
QueryScores == {70000, 91234}

SEARCH_OVERSAMPLE == 80
SEED_OVERSAMPLE == 200

CallSearchSongs(mood, k) ==
    /\ call = NoCall
    /\ \E sc \in [index -> QueryScores] :
         \E hits \in ClientSearch(index, sc, SEARCH_OVERSAMPLE, mood) :
            /\ call' = [fn |-> "search_songs", mood |-> mood, k |-> k,
                        hits |-> hits, pc |-> "returned"]
            /\ ret' = SearchSongsCollapse(hits, k)
    /\ UNCHANGED <<dataset, edits, song_state, index, prog, pc, status, runVars,
                   song, is_changed, histVars>>

CallPlaylistFromSeed(seed_song_id, k) ==
    /\ call = NoCall
    /\ \E scrolled \in ClientScrollOne(index, seed_song_id) :
       \E scrolled2 \in ClientScrollOne(index, seed_song_id) :
       \E sc \in [index -> QueryScores] :
       \E hits \in ClientSearch(index, sc, SEED_OVERSAMPLE, get_song_mood(scrolled)) :
            /\ call' = [fn |-> "build_playlist_from_seed",
                        seed_song_id |-> seed_song_id, k |-> k,
                        hits |-> IF get_song_mood(scrolled) = <<>> THEN <<>> ELSE hits,
                        pc |-> "returned"]
            /\ ret' = build_playlist_from_seed(seed_song_id, k, scrolled, scrolled2, hits)
    /\ UNCHANGED <<dataset, edits, song_state, index, prog, pc, status, runVars,
                   song, is_changed, histVars>>

CallPlaylistFromQuery(mood, k) ==
    /\ call = NoCall
    /\ \E sc \in [index -> QueryScores] :
         \E hits \in ClientSearch(index, sc, k * 5, mood) :
            /\ call' = [fn |-> "build_playlist_from_query", mood |-> mood, k |-> k,
                        hits |-> hits, pc |-> "returned"]
            /\ ret' = build_playlist_from_query(hits, k)
    /\ UNCHANGED <<dataset, edits, song_state, index, prog, pc, status, runVars,
                   song, is_changed, histVars>>

\* an index with any of the points, no ingestion running
InitPlaylist ==
    /\ dataset = [r \in RowIds |-> RowWith(r, <<LongLyrics, <<>>>>, Lit(<<"h">>))]
    /\ edits = 0
    /\ song_state = {}
    /\ index \in SUBSET PlaylistPoints
    /\ prog = "ingest_qdrant"
    /\ pc = "idle"
    /\ status = "done"
    /\ ingest_limit = 999999999
    /\ scan_limit = None
    /\ scanned = 0
    /\ processed = 0
    /\ upserted_points = 0
    /\ song = NoSong
    /\ is_changed = FALSE
    /\ interrupted = {}
    /\ ingested_ok = {}
    /\ call = NoCall
    /\ ret = <<>>

NextPlaylist ==
    \/ \E mood \in MoodArgs, k \in 1..MaxK : CallSearchSongs(mood, k)
    \/ \E seed \in SeedIds, k \in 1..MaxK : CallPlaylistFromSeed(seed, k)
    \/ \E mood \in MoodArgs, k \in 1..MaxK : CallPlaylistFromQuery(mood, k)

SpecPlaylist == InitPlaylist /\ [][NextPlaylist]_vars

(***************************************************************************)
(* Properties of the retrieval functions                                   *)
(***************************************************************************)
IsCallOf(fn) == IF call = NoCall THEN FALSE ELSE call.fn = fn

\* (song_id, score) of the items of a result list
SongScores(items) == [i \in 1..Len(items) |-> <<items[i].song_id, items[i].score>>]

\* (song_id, score) of what collapse_to_unique_songs gives for the hits
CollapseSongScores(hits, k) ==
    LET items == collapse_to_unique_songs(hits, k)
    IN  [i \in 1..Len(items) |-> <<items[i][1], items[i][2][1]>>]

\* the same with every score rounded to four decimals
CollapseSongScoresRounded(hits, k) ==
    LET items == collapse_to_unique_songs(hits, k)
    IN  [i \in 1..Len(items) |-> <<items[i][1], Round4(items[i][2][1])>>]

\* C14 as stated: in query mode the songs, their scores and their order are
\* those collapse_to_unique_songs gives for the same hits and k, each score
\* the greatest score among the song's hits.
C14_QueryEqualsCollapse ==
    IsCallOf("build_playlist_from_query") =>
        SongScores(ret) = CollapseSongScores(call.hits, call.k)

\* C14 amended: in query mode the songs and their order are those
\* collapse_to_unique_songs gives for the same hits and k, and the score of
\* each song is the greatest score among its hits rounded to four decimals;
\* the items are the top k of the ranking of the hits.
C14_QueryEqualsCollapseRounded ==
    IsCallOf("build_playlist_from_query") =>
        /\ SongScores(ret) = CollapseSongScoresRounded(call.hits, call.k)
        /\ IsTopKWith(ret, call.hits, call.k, TRUE)

\* query mode returned two songs, the first with two hits of different
\* scores, its reported score the rounded greater one
C14_Witness ==
    /\ IsCallOf("build_playlist_from_query")
    /\ Len(ret) = 2
    /\ \E i, j \in 1..Len(call.hits) :
          /\ call.hits[i].payload.song_id = ret[1].song_id
          /\ call.hits[j].payload.song_id = ret[1].song_id
          /\ call.hits[i].score > call.hits[j].score
          /\ ret[1].score = Round4(call.hits[i].score)
          /\ ret[1].score # call.hits[i].score

\* the item list of the result of the call
ItemsOfResult ==
    IF IsCallOf("build_playlist_from_seed")
    THEN IF ret.ok THEN ret.items ELSE <<>>
    ELSE ret

\* C15: for k >= 1 the items returned by search_songs, by seed mode and by
\* query mode are at most k and no two of them have the same song_id.
C15_AtMostKUnique ==
    (call # NoCall /\ call.k >= 1) =>
        /\ Len(ItemsOfResult) <= call.k
        /\ \A i, j \in 1..Len(ItemsOfResult) :
              i # j => ItemsOfResult[i].song_id # ItemsOfResult[j].song_id

\* a search or a query playlist returned k items from hits with more than k
\* songs, one of them with two hits
C15_Witness ==
    /\ call # NoCall
    /\ call.fn \in {"search_songs", "build_playlist_from_query"}
    /\ Len(ret) = call.k
    /\ Cardinality(SongsOf(call.hits)) > call.k
    /\ Len(call.hits) > Cardinality(SongsOf(call.hits))

\* C16: no item of the playlist built from a seed has the seed's song_id.
C16_SeedExcluded ==
    IsCallOf("build_playlist_from_seed") =>
        \A i \in 1..Len(ItemsOfResult) : ItemsOfResult[i].song_id # call.seed_song_id

\* a playlist was built for a seed whose own chunks are among the hits
C16_Witness ==
    /\ IsCallOf("build_playlist_from_seed")
    /\ ret.ok
    /\ call.seed_song_id \in SongsOf(call.hits)

\* the hits without those of the seed
NonSeedHits == SelectSeq(call.hits, LAMBDA h : h.payload.song_id # call.seed_song_id)

\* C17: in seed mode the items are the collapse of the hits without the
\* seed's own, cut to k: min(k, number of other songs among the hits) items,
\* each with its greatest hit score, by score descending; so the playlist is
\* not empty whenever the hits hold a song other than the seed.
C17_SeedPlaylistIsCollapse ==
    (IsCallOf("build_playlist_from_seed")
        /\ (ItemsOfResult # <<>> \/ SongsOf(NonSeedHits) # {})) =>
        /\ ret.ok
        /\ IsTopK(ret.items, NonSeedHits, call.k)

\* C18: seed mode returns the not-found result exactly when the index holds
\* no point of the seed song; a seed with a point gets ok = True whatever the
\* mood of its payload.  Query mode returns a list, never an error.
C18_NotFoundIffNoPoint ==
    IsCallOf("build_playlist_from_seed") =>
        (ret.ok = FALSE <=> PointsOfSong(index, call.seed_song_id) = {})

(***************************************************************************)
(* api/main.py: the retrieval endpoints                                    *)
(*                                                                         *)
(* A query parameter of a request is <<>> when missing and <<v>> when      *)
(* given.  A response is [status, ok, count, items].                       *)
(***************************************************************************)
Missing == <<>>

SEARCH_DEFAULT_K == 10
PLAYLIST_DEFAULT_K == 20
K_MIN == 1
K_MAX == 50
MAX_WEB_CANDIDATES == 3

\* k: int = Query(default, ge=1, le=50) or k: int = Query(default)
KValue(k, default) == IF k = Missing THEN default ELSE k[1]

KInRange(k, default) == K_MIN <= KValue(k, default) /\ KValue(k, default) <= K_MAX

\* mood: Optional[str] = Query(None)
MoodValue(mood) == IF mood = Missing THEN None ELSE mood[1]

\* the parameters search_songs declares and the keywords the handler passes
SearchSongsParams == {"query", "mood", "top_k_songs", "oversample_chunks"}

SearchHandlerKwargs == {"query", "mood", "k"}

\* a call with keyword arguments binds when every keyword is a parameter,
\* else Python raises TypeError before the body runs
KwargsBind(params, kwargs) == kwargs \subseteq params

ValidationError == [status |-> 422, ok |-> FALSE, count |-> 0, items |-> <<>>]

InternalError == [status |-> 500, ok |-> FALSE, count |-> 0, items |-> <<>>]

NotFound == [status |-> 404, ok |-> FALSE, count |-> 0, items |-> <<>>]

Ok(items) == [status |-> 200, ok |-> TRUE, count |-> Len(items), items |-> items]

\* the body of a playlist response with its two enrichment counters
PlaylistOk(items, urls_saved, meta_saved) ==
    [status |-> 200, ok |-> TRUE, count |-> Len(items), items |-> items,
     youtube_urls_saved |-> urls_saved, music_meta_saved |-> meta_saved]

\* src/config.py: the default of the environment switch
ENABLE_WEB_RESOLUTION == TRUE

\* _extract_url_map: the song ids of the items that carry a youtube_url
extract_url_map(items) ==
    {items[i].song_id : i \in {j \in 1..Len(items) :
                                 /\ "youtube_url" \in DOMAIN items[j]
                                 /\ items[j].song_id # <<>>}}

\* what resolve_from_web does for one candidate
ResolverOutcomes == {"meta", "none", "raises"}

\* no enrichment step ran
NoEnrich == <<>>

\* the items _resolve_and_upsert_music_meta looks up: those with song_id and
\* title (no item carries genre and rhythm), the first three
WebCandidates(items) ==
    PySliceTo(SelectSeq(items, LAMBDA it : it.song_id # <<>> /\ it.title # <<>>),
              MAX_WEB_CANDIDATES)

\* client.set_payload of the web metadata on every point of the songs
SetWebMeta(idx, song_ids) ==
    {IF p.payload.song_id \in song_ids
     THEN [p EXCEPT !.payload =
              [f \in DOMAIN p.payload \cup {"genre", "rhythm", "mood_web",
                                            "meta_source", "meta_confidence"} |->
                  IF f \in DOMAIN p.payload THEN p.payload[f] ELSE "web"]]
     ELSE p : p \in idx}

\* the song ids of the first n of the candidates for which the resolver
\* returned metadata: an exception of the resolver counts as no metadata
RECURSIVE FirstResolved(_, _, _, _)
FirstResolved(cands, outcome, i, n) ==
    IF i > Len(cands) \/ n = 0 THEN {}
    ELSE IF outcome[i] = "meta"
         THEN {cands[i].song_id} \cup FirstResolved(cands, outcome, i + 1, n - 1)
         ELSE FirstResolved(cands, outcome, i + 1, n)

\* the entries of meta_map
MetaMap(items, outcome) ==
    FirstResolved(WebCandidates(items), outcome, 1, Len(WebCandidates(items)))

\* a variant that reports the patches done before the failure
MetaSaved_counts_partial(resolved, done) == done

\* lines 102-105: the number of patched songs, 0 when a set_payload raised
MetaSaved(resolved, done) == IF done < resolved THEN 0 ELSE resolved

\* the enrichment runs _resolve_and_upsert_music_meta can take on the items:
\* outcome[i] is what resolve_from_web does for candidate i, done how many
\* set_payload calls succeed before one raises
EnrichRuns(items) ==
    IF ~ENABLE_WEB_RESOLUTION THEN {NoEnrich}
    ELSE {[outcome |-> o, done |-> d] :
             o \in [1..Len(WebCandidates(items)) -> ResolverOutcomes],
             d \in 0..Len(WebCandidates(items))}

ApiReturnEnriched(endpoint, q, mood, k, seed, invoked, hits, enrich, response) ==
    /\ call' = [fn |-> endpoint, q |-> q, mood |-> mood, k |-> k,
                seed_song_id |-> seed, invoked |-> invoked, hits |-> hits,
                enrich |-> enrich, pc |-> "returned"]
    /\ ret' = response

ApiReturn(endpoint, q, mood, k, seed, invoked, hits, response) ==
    ApiReturnEnriched(endpoint, q, mood, k, seed, invoked, hits, NoEnrich, response)

\* lines 234-240 and 266-273 after the playlist is built: the youtube patch
\* is not protected, the metadata patch swallows every exception
AfterPlaylist(endpoint, q, mood, k, seed, invoked, hits, items) ==
    IF extract_url_map(items) # {}
    THEN \/ /\ ApiReturn(endpoint, q, mood, k, seed, invoked, hits, InternalError)
            /\ UNCHANGED index
         \/ \E e \in EnrichRuns(items) :
               /\ e # NoEnrich => e.done <= Cardinality(MetaMap(items, e.outcome))
               /\ ApiReturnEnriched(endpoint, q, mood, k, seed, invoked, hits, e,
                     PlaylistOk(items, Cardinality(extract_url_map(items)),
                        IF e = NoEnrich THEN 0
                        ELSE MetaSaved(Cardinality(MetaMap(items, e.outcome)), e.done)))
               /\ index' = IF e = NoEnrich THEN index
                           ELSE SetWebMeta(index, FirstResolved(WebCandidates(items),
                                                               e.outcome, 1, e.done))
    ELSE \E e \in EnrichRuns(items) :
           /\ e # NoEnrich => e.done <= Cardinality(MetaMap(items, e.outcome))
           /\ ApiReturnEnriched(endpoint, q, mood, k, seed, invoked, hits, e,
                 PlaylistOk(items, 0,
                    IF e = NoEnrich THEN 0
                    ELSE MetaSaved(Cardinality(MetaMap(items, e.outcome)), e.done)))
           /\ index' = IF e = NoEnrich THEN index
                       ELSE SetWebMeta(index, FirstResolved(WebCandidates(items),
                                                           e.outcome, 1, e.done))

\* GET /search
Search(q, mood, k) ==
    /\ call = NoCall
    /\ IF q = Missing \/ ~KInRange(k, SEARCH_DEFAULT_K)
       THEN ApiReturn("/search", q, mood, k, <<>>, {}, <<>>, ValidationError)
       ELSE IF ~KwargsBind(SearchSongsParams, SearchHandlerKwargs)
       THEN ApiReturn("/search", q, mood, k, <<>>, {}, <<>>, InternalError)
       ELSE \E sc \in [index -> QueryScores] :
            \E hits \in ClientSearch(index, sc, SEARCH_OVERSAMPLE, MoodValue(mood)) :
               ApiReturn("/search", q, mood, k, <<>>, {"search_songs"}, hits,
                         Ok(SearchSongsCollapse(hits, KValue(k, SEARCH_DEFAULT_K))))
    /\ UNCHANGED <<dataset, edits, song_state, index, prog, pc, status, runVars,
                   song, is_changed, histVars>>

\* playlist_from_seed(seed_song_id, k) once its arguments are bound
PlaylistFromSeedBody(endpoint, seed, k) ==
    \E scrolled \in ClientScrollOne(index, seed) :
    \E scrolled2 \in ClientScrollOne(index, seed) :
    \E sc \in [index -> QueryScores] :
    \E hits \in ClientSearch(index, sc, SEED_OVERSAMPLE, get_song_mood(scrolled)) :
       LET data == build_playlist_from_seed(seed, KValue(k, PLAYLIST_DEFAULT_K),
                                            scrolled, scrolled2, hits)
       IN  IF ~data.ok
           THEN /\ ApiReturn(endpoint, Missing, Missing, k, seed,
                             {"build_playlist_from_seed"}, <<>>, NotFound)
                /\ UNCHANGED index
           ELSE AfterPlaylist(endpoint, Missing, Missing, k, seed,
                              {"build_playlist_from_seed"}, hits, data.items)

\* playlist_query(q, mood, k) once its arguments are bound; a limit below 1
\* is outside what client.search documents: it raises or returns no hit
PlaylistQueryBody(endpoint, q, mood, k) ==
    \/ /\ KValue(k, PLAYLIST_DEFAULT_K) < 1
       /\ ApiReturn(endpoint, q, mood, k, <<>>, {"build_playlist_from_query"},
                    <<>>, InternalError)
       /\ UNCHANGED index
    \/ \E sc \in [index -> QueryScores] :
       \E hits \in ClientSearch(index, sc, KValue(k, PLAYLIST_DEFAULT_K) * 5,
                                MoodValue(mood)) :
          LET items == build_playlist_from_query(hits, KValue(k, PLAYLIST_DEFAULT_K))
          IN  AfterPlaylist(endpoint, q, mood, k, <<>>, {"build_playlist_from_query"},
                            hits, items)

\* GET /playlist/seed/{seed_song_id}
PlaylistFromSeed(seed, k) ==
    /\ call = NoCall
    /\ IF ~KInRange(k, PLAYLIST_DEFAULT_K)
       THEN /\ ApiReturn("/playlist/seed", Missing, Missing, k, seed, {}, <<>>,
                         ValidationError)
            /\ UNCHANGED index
       ELSE PlaylistFromSeedBody("/playlist/seed", seed, k)
    /\ UNCHANGED <<dataset, edits, song_state, prog, pc, status, runVars,
                   song, is_changed, histVars>>

\* GET /playlist/query
PlaylistQuery(q, mood, k) ==
    /\ call = NoCall
    /\ IF q = Missing \/ ~KInRange(k, PLAYLIST_DEFAULT_K)
       THEN /\ ApiReturn("/playlist/query", q, mood, k, <<>>, {}, <<>>,
                         ValidationError)
            /\ UNCHANGED index
       ELSE PlaylistQueryBody("/playlist/query", q, mood, k)
    /\ UNCHANGED <<dataset, edits, song_state, prog, pc, status, runVars,
                   song, is_changed, histVars>>

\* GET /player/query: k: int = Query(20), then playlist_query called as a
\* plain function
PlayerQuery(q, mood, k) ==
    /\ call = NoCall
    /\ IF q = Missing
       THEN /\ ApiReturn("/player/query", q, mood, k, <<>>, {}, <<>>,
                         ValidationError)
            /\ UNCHANGED index
       ELSE PlaylistQueryBody("/player/query", q, mood, k)
    /\ UNCHANGED <<dataset, edits, song_state, prog, pc, status, runVars,
                   song, is_changed, histVars>>

\* GET /player/seed/{seed_song_id}: k: int = Query(20), then
\* playlist_from_seed called as a plain function
PlayerSeed(seed, k) ==
    /\ call = NoCall
    /\ PlaylistFromSeedBody("/player/seed", seed, k)
    /\ UNCHANGED <<dataset, edits, song_state, prog, pc, status, runVars,
                   song, is_changed, histVars>>

QArgs == {Missing, <<Lit(<<"l">>)>>}

MoodParams == {Missing, <<Lit(<<"h">>)>>}

KArgs == {Missing} \cup {<<k>> : k \in {-1, 0, 1, MaxK, K_MAX, K_MAX + 1}}

ApiSeeds == {SongA, SongZ}

NextApi ==
    \/ \E q \in QArgs, mood \in MoodParams, k \in KArgs : Search(q, mood, k)
    \/ \E seed \in ApiSeeds, k \in KArgs : PlaylistFromSeed(seed, k)
    \/ \E q \in QArgs, mood \in MoodParams, k \in KArgs : PlaylistQuery(q, mood, k)
    \/ \E q \in QArgs, mood \in MoodParams, k \in KArgs : PlayerQuery(q, mood, k)
    \/ \E seed \in ApiSeeds, k \in KArgs : PlayerSeed(seed, k)

SpecApi == InitPlaylist /\ [][NextApi]_vars

\* the request lacks a required query text or has k outside 1..50
Malformed ==
    \/ call.fn \in {"/search", "/playlist/query", "/player/query"} /\ call.q = Missing
    \/ call.k # Missing /\ (call.k[1] < K_MIN \/ call.k[1] > K_MAX)

\* C19: on /search, /playlist/seed, /playlist/query, /player/query and
\* /player/seed a request without query text or with k outside 1..50 gets a
\* 4xx response and no retrieval function runs.
C19_MalformedRejected ==
    (call # NoCall /\ Malformed) =>
        /\ ret.status >= 400 /\ ret.status < 500
        /\ call.invoked = {}

\* C20: GET /search with a query text and k in 1..50 answers 200 with
\* ok = true, count and the list search_songs returns for (q, mood, k), at
\* most k items, each with score, song_id and title.
C20_SearchSucceeds ==
    (IsCallOf("/search") /\ ~Malformed) =>
        /\ ret.status = 200
        /\ ret.ok
        /\ call.invoked = {"search_songs"}
        /\ ret.items = SearchSongsCollapse(call.hits, KValue(call.k, SEARCH_DEFAULT_K))
        /\ ret.count = Len(ret.items)
        /\ Len(ret.items) <= KValue(call.k, SEARCH_DEFAULT_K)
        /\ \A i \in 1..Len(ret.items) :
              {"score", "song_id", "title"} \subseteq DOMAIN ret.items[i]

QueryEndpoints == {"/playlist/query", "/player/query"}

SeedEndpoints == {"/playlist/seed", "/player/seed"}

\* the playlist the retrieval function built for the request of the call
BuiltItems ==
    IF call.fn \in QueryEndpoints
    THEN {build_playlist_from_query(call.hits, KValue(call.k, PLAYLIST_DEFAULT_K))}
    ELSE {build_playlist_from_seed(call.seed_song_id, KValue(call.k, PLAYLIST_DEFAULT_K),
                                   <<p>>, <<p>>, call.hits).items :
             p \in {x \in PointsOfSong(index, call.seed_song_id) : x.payload.mood # <<>>}}

\* the retrieval function of a playlist endpoint ran and returned a playlist
PlaylistBuilt ==
    /\ call # NoCall
    /\ call.fn \in QueryEndpoints \cup SeedEndpoints
    /\ call.invoked # {}
    /\ call.fn \in QueryEndpoints => KValue(call.k, PLAYLIST_DEFAULT_K) >= 1
    /\ call.fn \in SeedEndpoints => ret.status # 404

\* the resolver gave metadata for no candidate, or a payload patch raised
EnrichmentFailed ==
    \/ Cardinality(MetaMap(ret.items, call.enrich.outcome)) = 0
    \/ call.enrich.done < Cardinality(MetaMap(ret.items, call.enrich.outcome))

\* C21: on /playlist/seed, /playlist/query and the /player aliases, whatever
\* the web resolver and the payload patches do (raise, return nothing, fail
\* midway), the response is 200 with the items the retrieval function built;
\* a failing enrichment step only makes its saved-counter 0.
C21_EnrichmentNeverFailsPlaylist ==
    PlaylistBuilt =>
        /\ ret.status = 200
        /\ ret.ok
        /\ ret.items \in BuiltItems
        /\ ret.count = Len(ret.items)
        /\ ret.youtube_urls_saved = 0
        /\ call.enrich # NoEnrich
        /\ ret.music_meta_saved =
              IF EnrichmentFailed THEN 0
              ELSE Cardinality(MetaMap(ret.items, call.enrich.outcome))

\* a query playlist of three songs came back although the resolver raised for
\* one candidate and the second payload patch raised: one song is patched in
\* the index and the counter is 0
C21_Witness ==
    /\ PlaylistBuilt
    /\ call.fn \in QueryEndpoints
    /\ Len(ret.items) >= 3
    /\ \E i \in 1..Len(WebCandidates(ret.items)) : call.enrich.outcome[i] = "raises"
    /\ Cardinality(MetaMap(ret.items, call.enrich.outcome)) = 2
    /\ call.enrich.done = 1
    /\ ret.status = 200
    /\ ret.music_meta_saved = 0
    /\ \E p \in index : "mood_web" \in DOMAIN p.payload

(***************************************************************************)
(* Calls of iter_songs and enrich_record on two rows                       *)
(***************************************************************************)
\* field values with the separator, with upper case and with blanks
IdTitles == {Lit(<<"a">>), Lit(<<"a", "|", "b">>), Lit(<<" ", "A">>)}

IdSingers == {Lit(<<"c">>), Lit(<<"b", "|", "c">>)}

IdUrls == {<<>>, Lit(<<"u">>)}

IdMoods == {Lit(<<"h">>), Lit(<<"h", "|", "l">>)}

IdThemes == {Lit(<<"l">>), Lit(<<"l", "|", "l">>)}

IdLyrics == {<<ShortLyrics, <<>>>>, <<LongLyrics, <<>>>>}

IdRows ==
    {[BaseRow(1) EXCEPT !.song_title = t, !.singer = s, !.song_url = u,
                        !.primary_mood = m, !.theme_tags = th,
                        !.tamil_lyrics = l[1], !.english_lyrics = l[2]] :
        t \in IdTitles, s \in IdSingers, u \in IdUrls, m \in IdMoods,
        th \in IdThemes, l \in IdLyrics}

\* the records the pipeline p makes of two rows
CallRecords(p, row1, row2) ==
    /\ call = NoCall
    /\ call' = [fn |-> IF p = "ingest_qdrant" THEN "iter_songs" ELSE "enrich_record",
                prog |-> p, rows |-> <<row1, row2>>, pc |-> "returned"]
    /\ ret' = <<RecordOf(p, row1), RecordOf(p, row2)>>
    /\ UNCHANGED <<dataset, edits, song_state, index, prog, pc, status, runVars,
                   song, is_changed, histVars>>

NextRecords == \E p \in Programs, row1 \in IdRows, row2 \in IdRows : CallRecords(p, row1, row2)

SpecRecords == InitPointId /\ [][NextRecords]_vars

\* the identity fields of a row in the pipeline p
IdentityOf(p, row) ==
    IF p = "ingest_qdrant"
    THEN <<Lower(Strip(row.song_title)), Lower(Strip(row.singer)),
           Lower(Strip(row.movie_title)), Strip(row.movie_year)>>
    ELSE <<row.song_url>>

\* the state table after the first record was committed
AfterFirst == StateUpsert({}, ret[1].song_id, ret[1].lyrics_hash, ret[1].meta_hash)

\* C22: in both pipelines two records get the same song_id exactly when
\* their identity fields (normalized title, singer, movie, year for
\* load_dataset; the source URL for crawl_ingest_direct) are the same, so a
\* record whose lyrics alone changed keeps its song_id and is seen as CHANGED
\* against the state row of its earlier version.
C22_SongIdIsIdentity ==
    (call # NoCall /\ call.fn \in {"iter_songs", "enrich_record"}) =>
        /\ (IdentityOf(call.prog, call.rows[1]) = IdentityOf(call.prog, call.rows[2]))
              <=> (ret[1].song_id = ret[2].song_id)
        /\ (/\ IdentityOf(call.prog, call.rows[1]) = IdentityOf(call.prog, call.rows[2])
            /\ ret[1].lyrics_hash # ret[2].lyrics_hash)
              => is_changed_of(StateGet(AfterFirst, ret[2].song_id), ret[2])

\* the metadata fields of a row, trimmed and lower-cased, in the order of keys
MetaTuple(row) == [k \in 1..Len(MetaKeys) |-> Lower(Strip(row[MetaKeys[k]]))]

\* C24: the meta_hash of two rows is the same exactly when their tuples
\* (song_title, singer, movie_title, movie_year, primary_mood, theme_tags,
\* decade), trimmed and lower-cased, are the same: it does not depend on the
\* lyrics, and rows with different tuples never hash the same joined string
\* (the digest of the model is the joined string itself).
C24_MetaHashOfTuple ==
    IsCallOf("iter_songs") =>
        ((MetaTuple(call.rows[1]) = MetaTuple(call.rows[2]))
            <=> (ret[1].meta_hash = ret[2].meta_hash))

(***************************************************************************)
(* ingest_qdrant.main as one call: the run from its first row to its end   *)
(* when no step fails and nothing interrupts it                            *)
(***************************************************************************)
MaxRuns == 3

\* the locals of main at its start, on the state table and the index it opens
StartOfRun(tbl, idx) ==
    [tbl |-> tbl, idx |-> idx, scanned |-> 0, processed |-> 0,
     upserted_points |-> 0, state_writes |-> 0, index_writes |-> 0,
     classes |-> <<>>]

\* NEW, CHANGED or UNCHANGED as lines 40-45 decide it
ClassOf(prev, sng) ==
    IF is_new_of(prev) THEN "NEW"
    ELSE IF is_changed_of(prev, sng) THEN "CHANGED"
    ELSE "UNCHANGED"

\* one iteration of the for loop of main on the record sng
MainIteration(p, sng, st) ==
    LET prev    == StateGet(st.tbl, sng.song_id)
        changed == is_changed_of(prev, sng)
        seen    == [st EXCEPT !.scanned = @ + 1,
                              !.classes = Append(@, ClassOf(prev, sng))]
        deleted == IF changed
                   THEN [seen EXCEPT !.idx = delete_song_chunks(@, sng.song_id),
                                     !.index_writes = @ + 1]
                   ELSE seen
        chunks  == ChunksOf(sng)
    IN  IF AfterDiff(prev, sng) = "loop" THEN seen
        ELSE IF chunks = <<>>
        THEN [deleted EXCEPT !.tbl = StateUpsert(@, sng.song_id, sng.lyrics_hash,
                                                 sng.meta_hash),
                             !.state_writes = @ + 1]
        ELSE [deleted EXCEPT !.idx = QdrantUpsert(@, BuildPoints(p, sng, chunks)),
                             !.index_writes = @ + 1,
                             !.upserted_points = @ + Len(chunks),
                             !.tbl = StateUpsert(@, sng.song_id, sng.lyrics_hash,
                                                 sng.meta_hash),
                             !.state_writes = @ + 1,
                             !.processed = @ + 1]

\* the for loop of main from row i on, scan_limit None
RECURSIVE MainLoop(_, _, _, _, _)
MainLoop(p, rows, i, limit, st) ==
    IF i > Len(rows) THEN st
    ELSE LET st2 == MainIteration(p, RecordOf(p, rows[i]), st)
         IN  IF st2.processed > st.processed /\ st2.processed >= limit THEN st2
             ELSE MainLoop(p, rows, i + 1, limit, st2)

\* main(dataset_path, ingest_limit) on the state table and the index
IngestMain(p, rows, limit, tbl, idx) == MainLoop(p, rows, 1, limit, StartOfRun(tbl, idx))

\* the rows a file can hold: a row of song t with any of the lyrics, so that
\* two rows of a file can be the same song with different lyrics
FileRows == {RowWith(t, pair, Lit(<<"h">>)) : t \in RowIds, pair \in LyricsPairs}

\* any file of NumRows rows, an empty state table and an empty index
InitFile ==
    /\ dataset \in [RowIds -> FileRows]
    /\ edits = 0
    /\ song_state = {}
    /\ index = {}
    /\ prog = "ingest_qdrant"
    /\ pc = "idle"
    /\ status = "done"
    /\ ingest_limit = 999999999
    /\ scan_limit = None
    /\ scanned = 0
    /\ processed = 0
    /\ upserted_points = 0
    /\ song = NoSong
    /\ is_changed = FALSE
    /\ interrupted = {}
    /\ ingested_ok = {}
    /\ call = NoCall
    /\ ret = <<>>

\* python -m src.ingest_qdrant <file> <ingest_limit>, run to its end
RunMain(il) ==
    /\ IF call = NoCall THEN TRUE ELSE call.runs < MaxRuns
    /\ LET run == IngestMain(prog, dataset, il, song_state, index)
       IN  /\ song_state' = run.tbl
           /\ index' = run.idx
           /\ call' = [fn |-> "ingest_qdrant.main", ingest_limit |-> il,
                       runs |-> IF call = NoCall THEN 1 ELSE call.runs + 1,
                       after_complete |-> IF call = NoCall THEN FALSE
                                          ELSE ret.scanned = Len(dataset)
                                               /\ ret.processed < call.ingest_limit]
           /\ ret' = run
    /\ UNCHANGED <<dataset, edits, prog, pc, status, runVars, song, is_changed,
                   histVars>>

NextRerun == \E il \in IngestLimits : RunMain(il)

SpecRerun == InitFile /\ [][NextRerun]_vars

\* C25: a run of main that follows a complete run (no limit reached, no
\* failure) over the same file classifies every row UNCHANGED and writes
\* neither to the index nor to the state table, also when several rows of
\* the file are the same song with different lyrics.
C25_RerunIsNoOp ==
    (IsCallOf("ingest_qdrant.main") /\ call.after_complete) =>
        /\ \A i \in 1..Len(ret.classes) : ret.classes[i] = "UNCHANGED"
        /\ ret.index_writes = 0
        /\ ret.state_writes = 0
        /\ ret.processed = 0

(***************************************************************************)
(* scripts/run_full_ingestion.py                                           *)
(*                                                                         *)
(* A round of the driver is a function of the state table and the index it *)
(* starts from (the file is fixed and no step fails), and a file has       *)
(* finitely many tables and indexes: the driver runs forever exactly when a *)
(* round of a loop starts from a table and an index from which an earlier  *)
(* round of that loop started.  The driver's record keeps these starts.    *)
(***************************************************************************)
\* BATCH_SIZE of the script is 500; the files of the model have NumRows rows
\* and the batch is scaled to them
BatchSize == 1

\* run_once: the subprocess runs main with ingest_limit = BATCH_SIZE and the
\* count is read from its "Songs ingested: N" line
run_once(rows, tbl, idx) == IngestMain("ingest_qdrant", rows, BatchSize, tbl, idx)

BatchStart ==
    /\ call = NoCall
    /\ call' = [fn |-> "run_full_ingestion.main", pc |-> "loop1", total |-> 0,
                round_no |-> 1, starts |-> {}, repeats |-> FALSE]
    /\ UNCHANGED <<dataset, edits, song_state, index, prog, pc, status, runVars,
                   song, is_changed, histVars, ret>>

\* the driver's record after a round that started from a new table and index
Started(drv) ==
    [drv EXCEPT !.starts = @ \cup {<<drv.pc, song_state, index>>},
                !.repeats = <<drv.pc, song_state, index>> \in drv.starts]

\* one round of the first while loop, lines 42-57
BatchRound1 ==
    /\ IsCallOf("run_full_ingestion.main")
    /\ call.pc = "loop1"
    /\ ~call.repeats
    /\ LET run == run_once(dataset, song_state, index)
       IN  /\ song_state' = run.tbl
           /\ index' = run.idx
           /\ ret' = run
           /\ call' = IF <<call.pc, song_state, index>> \in call.starts
                      THEN Started(call)
                      ELSE IF run.processed = 0
                      THEN [Started(call) EXCEPT !.pc = "loop2", !.total = 0,
                                                 !.round_no = 1]
                      ELSE IF run.processed < BatchSize
                      THEN [Started(call) EXCEPT !.pc = "loop2", !.total = 0,
                                                 !.round_no = 1]
                      ELSE [Started(call) EXCEPT !.total = @ + run.processed,
                                                 !.round_no = @ + 1]
    /\ UNCHANGED <<dataset, edits, prog, pc, status, runVars, song, is_changed,
                   histVars>>

\* one round of the second while loop, lines 64-73
BatchRound2 ==
    /\ IsCallOf("run_full_ingestion.main")
    /\ call.pc = "loop2"
    /\ ~call.repeats
    /\ LET run == run_once(dataset, song_state, index)
       IN  /\ song_state' = run.tbl
           /\ index' = run.idx
           /\ ret' = run
           /\ call' = IF <<call.pc, song_state, index>> \in call.starts
                      THEN Started(call)
                      ELSE IF run.processed = 0
                      THEN [Started(call) EXCEPT !.pc = "done"]
                      ELSE [Started(call) EXCEPT !.total = @ + run.processed,
                                                 !.round_no = @ + 1]
    /\ UNCHANGED <<dataset, edits, prog, pc, status, runVars, song, is_changed,
                   histVars>>

NextBatch == BatchStart \/ BatchRound1 \/ BatchRound2

SpecBatch == InitFile /\ [][NextBatch]_vars

\* every song of the file has a state row with the lyrics_hash of one of its rows
AllSongsRecorded ==
    \A r \in RowIds :
        LET prev == StateGet(song_state, RecordOf(prog, dataset[r]).song_id)
        IN  /\ prev # None
            /\ \E q \in RowIds :
                  /\ RecordOf(prog, dataset[q]).song_id = RecordOf(prog, dataset[r]).song_id
                  /\ RecordOf(prog, dataset[q]).lyrics_hash = prev[1]

\* C26: run_full_ingestion.main terminates on every file when no step fails:
\* no round starts from a state table and an index from which an earlier
\* round of the same loop started (the rounds would repeat forever), and
\* when the driver ends its last round reported zero songs ingested and
\* every song of the file has a state row with its lyrics_hash.
C26_BatchTerminates ==
    IsCallOf("run_full_ingestion.main") =>
        /\ ~call.repeats
        /\ call.pc = "done" => (ret.processed = 0 /\ AllSongsRecorded)

(***************************************************************************)
(* scripts/daily_run.py                                                    *)
(*                                                                         *)
(* The record of the deployment keeps the raw file (one row per line), the *)
(* offset saved in the offsets file (in lines: every line is complete when *)
(* it is read) and the number of runs.  dataset is the temp enriched file, *)
(* song_state the table of the database StateStore opens.                  *)
(***************************************************************************)
\* the database StateStore() opens and the file maybe_reset_state_db unlinks
STATE_DB_PATH == <<"data", "state_v2.db">>

RESET_DB_PATH == <<"data", "state", "state.db">>

\* maybe_reset_state_db: the table StateStore finds afterwards
maybe_reset_state_db(tbl) == IF RESET_DB_PATH = STATE_DB_PATH THEN {} ELSE tbl

\* the functions scripts/enrich.py defines
EnricherAttrs == {"load_processed_keys", "derive_decade",
                  "iso8601_duration_to_seconds", "find_youtube_video",
                  "classify_with_embeddings", "enrich_record", "enhance_dataset"}

\* classify_record calls enricher.enrich_one_record: AttributeError when the
\* module has no such attribute
ClassifyRaises == "enrich_one_record" \notin EnricherAttrs

DailyModes == {"delta", "full"}

NoRun == <<>>

\* the deployment before its first daily run
FirstDay == [fn |-> "daily_run", raw |-> <<>>, offset |-> 0, runs |-> 0]

\* python -m scripts.daily_run with MODE and RESET_STATE, the crawl of step 1
\* appending the rows new
DailyRun(mode, reset, new) ==
    LET env   == IF call = NoCall THEN FirstDay ELSE call
        raw   == env.raw \o new
        start == IF mode = "full" THEN 0 ELSE env.offset
        lines == SubSeq(raw, start + 1, Len(raw))
        tbl   == IF mode = "full" /\ reset THEN maybe_reset_state_db(song_state)
                 ELSE song_state
    IN  /\ IF call = NoCall THEN TRUE ELSE call.fn = "daily_run" /\ call.runs < MaxRuns
        /\ Len(raw) <= NumRows
        /\ song_state' = tbl
        /\ \/ /\ lines = <<>>
              \* count == 0: the offset is saved, the ingest is skipped
              /\ dataset' = <<>>
              /\ call' = [env EXCEPT !.raw = raw, !.runs = @ + 1,
                                     !.offset = IF mode = "delta" THEN Len(raw) ELSE @]
              /\ ret' = [mode |-> mode, reset |-> reset, status |-> "no new songs",
                         appended |-> Len(new), classified |-> 0,
                         state_at_ingest |-> tbl, ingest |-> NoRun,
                         stalled |-> new = <<>>]
           \/ /\ lines # <<>>
              /\ ClassifyRaises
              \* the temp file is opened for writing, the first record raises:
              \* no offset is saved, no ingest runs
              /\ dataset' = <<>>
              /\ call' = [env EXCEPT !.raw = raw, !.runs = @ + 1]
              /\ ret' = [mode |-> mode, reset |-> reset, status |-> "AttributeError",
                         appended |-> Len(new), classified |-> 0,
                         state_at_ingest |-> tbl, ingest |-> NoRun,
                         stalled |-> tbl = song_state]
        /\ UNCHANGED <<edits, index, prog, pc, status, runVars, song, is_changed,
                       histVars>>

\* a state table and an index left by earlier runs of src.ingest_qdrant on
\* some file
InitDaily ==
    /\ \E rows \in [RowIds -> FileRows], n \in 0..NumRows :
          /\ dataset = SubSeq(rows, 1, n)
          /\ song_state = IngestMain("ingest_qdrant", dataset, 999999999, {}, {}).tbl
          /\ index = IngestMain("ingest_qdrant", dataset, 999999999, {}, {}).idx
    /\ edits = 0
    /\ prog = "ingest_qdrant"
    /\ pc = "idle"
    /\ status = "done"
    /\ ingest_limit = 999999999
    /\ scan_limit = None
    /\ scanned = 0
    /\ processed = 0
    /\ upserted_points = 0
    /\ song = NoSong
    /\ is_changed = FALSE
    /\ interrupted = {}
    /\ ingested_ok = {}
    /\ call = NoCall
    /\ ret = <<>>

NextDaily ==
    \E mode \in DailyModes, reset \in BOOLEAN,
       new \in {<<>>} \cup {<<row>> : row \in FileRows} : DailyRun(mode, reset, new)

SpecDaily == InitDaily /\ [][NextDaily]_vars

\* the rows of the raw file whose song has a state row
IngestedLines ==
    {i \in 1..Len(call.raw) :
        StateGet(song_state, RecordOf(prog, call.raw[i]).song_id) # None}

\* C27: after daily_run with MODE=full and RESET_STATE=1 on a raw file with
\* songs, the state table the ingestion reads was empty, the ingestion ran,
\* classified every song NEW and recorded it.
C27_FullResetStartsEmpty ==
    (IsCallOf("daily_run") /\ ret.mode = "full" /\ ret.reset /\ call.raw # <<>>) =>
        /\ ret.state_at_ingest = {}
        /\ ret.ingest # NoRun
        /\ \A i \in 1..Len(ret.ingest.classes) : ret.ingest.classes[i] = "NEW"
        /\ IngestedLines = 1..Len(call.raw)

\* C28: after a delta run the saved offset is the end of the lines classified
\* so far, every line below it has been ingested (a later delta run reads
\* only the lines beyond it), and a run that leaves the offset, the state
\* table and the index as it found them, with no new line, leaves no line
\* waiting: otherwise every later delta run does the same and the line is
\* never ingested.
C28_DeltaLosesNoRecord ==
    (IsCallOf("daily_run") /\ ret.mode = "delta") =>
        /\ call.offset <= Len(call.raw)
        /\ 1..call.offset \subseteq IngestedLines
        /\ ret.stalled => IngestedLines = 1..Len(call.raw)

(***************************************************************************)
(* Two runs of src.ingest_qdrant.main at the same time                     *)
(*                                                                         *)
(* Both runs read the dataset file and share the state table and the       *)
(* index.  main takes no lock and StateStore opens a plain sqlite          *)
(* connection whose get and upsert are separate statements, so the steps   *)
(* of the two loops interleave freely.  The record of the runs keeps, for  *)
(* each worker, its place in the loop body, the row it is at and the song  *)
(* it holds.                                                               *)
(***************************************************************************)
Workers == {1, 2}

WorkerStart == [pc |-> "next", i |-> 1, song |-> NoSong]

\* both runs are started
StartWorkers ==
    /\ call = NoCall
    /\ call' = [fn |-> "ingest_qdrant.main x2", w |-> [w \in Workers |-> WorkerStart]]
    /\ UNCHANGED <<dataset, edits, song_state, index, prog, pc, status, runVars,
                   song, is_changed, histVars, ret>>

WorkerAt(w, at) == IsCallOf("ingest_qdrant.main x2") /\ call.w[w].pc = at

\* lines 34-45: the next song of the file, state.get and the diff
WorkerDiff(w) ==
    /\ WorkerAt(w, "next")
    /\ call.w[w].i <= Len(dataset)
    /\ LET sng  == RecordOf(prog, dataset[call.w[w].i])
           prev == StateGet(song_state, sng.song_id)
       IN  call' = [call EXCEPT !.w[w] =
                       IF AfterDiff(prev, sng) = "loop"
                       THEN [@ EXCEPT !.i = @ + 1]
                       ELSE [@ EXCEPT !.song = sng,
                                      !.pc = IF is_changed_of(prev, sng)
                                             THEN "delete" ELSE "chunk"]]
    /\ UNCHANGED <<dataset, edits, song_state, index, prog, pc, status, runVars,
                   song, is_changed, histVars, ret>>

\* lines 47-48: delete_song_chunks of a changed song
WorkerDelete(w) ==
    /\ WorkerAt(w, "delete")
    /\ index' = delete_song_chunks(index, call.w[w].song.song_id)
    /\ call' = [call EXCEPT !.w[w].pc = "chunk"]
    /\ UNCHANGED <<dataset, edits, song_state, prog, pc, status, runVars,
                   song, is_changed, histVars, ret>>

\* lines 50-84: chunk, embed, build the points, client.upsert; a song
\* without chunks has its state row written at once
WorkerUpsert(w) ==
    /\ WorkerAt(w, "chunk")
    /\ LET sng    == call.w[w].song
           chunks == ChunksOf(sng)
       IN  IF chunks = <<>>
           THEN /\ song_state' = StateUpsert(song_state, sng.song_id,
                                             sng.lyrics_hash, sng.meta_hash)
                /\ call' = [call EXCEPT !.w[w] = [@ EXCEPT !.pc = "next", !.i = @ + 1,
                                                           !.song = NoSong]]
                /\ UNCHANGED index
           ELSE /\ index' = QdrantUpsert(index, BuildPoints(prog, sng, chunks))
                /\ call' = [call EXCEPT !.w[w].pc = "commit"]
                /\ UNCHANGED song_state
    /\ UNCHANGED <<dataset, edits, prog, pc, status, runVars,
                   song, is_changed, histVars, ret>>

\* lines 86-87: state.upsert after the upsert of the points
WorkerCommit(w) ==
    /\ WorkerAt(w, "commit")
    /\ song_state' = StateUpsert(song_state, call.w[w].song.song_id,
                                 call.w[w].song.lyrics_hash, call.w[w].song.meta_hash)
    /\ call' = [call EXCEPT !.w[w] = [@ EXCEPT !.pc = "next", !.i = @ + 1,
                                               !.song = NoSong]]
    /\ UNCHANGED <<dataset, edits, index, prog, pc, status, runVars,
                   song, is_changed, histVars, ret>>

NextWorkers ==
    \/ StartWorkers
    \/ \E w \in Workers : WorkerDiff(w)
    \/ \E w \in Workers : WorkerDelete(w)
    \/ \E w \in Workers : WorkerUpsert(w)
    \/ \E w \in Workers : WorkerCommit(w)

SpecWorkers == InitFile /\ [][NextWorkers]_vars

\* the worker has looked the song up and has not yet committed its state row
BetweenDiffAndCommit(w) == call.w[w].pc \in {"delete", "chunk", "commit"}

\* C23: at any time at most one worker is between the state lookup and the
\* state commit of a given song_id.
C23_OneWorkerPerSong ==
    IsCallOf("ingest_qdrant.main x2") =>
        \A v, w \in Workers :
            (v # w /\ BetweenDiffAndCommit(v) /\ BetweenDiffAndCommit(w)) =>
                call.w[v].song.song_id # call.w[w].song.song_id

(***************************************************************************)
(* src/qdrant_read.py and POST /player/items-by-song-ids                   *)
(***************************************************************************)
\* limit=len(song_ids) * 3
SCROLL_POINTS_PER_SONG == 3

\* the largest number of chunks of song A in the index
MaxSongChunks == 6

\* the indexes: the chunks 0..nA-1 of song A and at most one chunk of song B
ReadIndexes ==
    {{IndexPoint(SongA, Lit(<<"h">>), c - 1) : c \in 1..nA}
        \cup {IndexPoint(SongB, Lit(<<"h">>), c - 1) : c \in 1..nB} :
            nA \in 0..MaxSongChunks, nB \in 0..1}

\* the sequences of n distinct points of S (all of S when it has fewer)
RECURSIVE ScrollSeqs(_, _)
ScrollSeqs(S, n) ==
    IF n = 0 \/ S = {} THEN {<<>>}
    ELSE UNION {{<<p>> \o q : q \in ScrollSeqs(S \ {p}, n - 1)} : p \in S}

\* client.scroll with the filter song_id in song_ids: the first limit
\* matching points in the order of their ids, which are digests, so in any
\* order
ClientScrollAny(idx, song_ids, limit) ==
    ScrollSeqs({p \in idx : \E i \in 1..Len(song_ids) : p.payload.song_id = song_ids[i]},
               limit)

\* payload.get(key)
PayloadGet(payload, key) == IF key \in DOMAIN payload THEN payload[key] ELSE None

ReadItem(payload) ==
    [song_id |-> payload.song_id, title |-> PayloadGet(payload, "title"),
     movie |-> PayloadGet(payload, "movie"), year |-> PayloadGet(payload, "year"),
     youtube_url |-> PayloadGet(payload, "youtube_url")]

\* lines 31-46: the values of seen in the order of insertion
RECURSIVE SeenValues(_, _, _)
SeenValues(results, i, seen) ==
    IF i > Len(results) THEN seen
    ELSE LET sid == PayloadGet(results[i].payload, "song_id")
         IN  IF sid = None \/ \E j \in 1..Len(seen) : seen[j].song_id = sid
             THEN SeenValues(results, i + 1, seen)
             ELSE SeenValues(results, i + 1, Append(seen, ReadItem(results[i].payload)))

fetch_limit(song_ids) == Len(song_ids) * SCROLL_POINTS_PER_SONG

\* POST /player/items-by-song-ids with the body {"song_ids": song_ids}
ItemsBySongIds(song_ids) ==
    /\ call = NoCall
    /\ IF song_ids = <<>>
       THEN /\ call' = [fn |-> "/player/items-by-song-ids", song_ids |-> song_ids,
                        results |-> <<>>]
            /\ ret' = Ok(<<>>)
       ELSE \E results \in ClientScrollAny(index, song_ids, fetch_limit(song_ids)) :
               /\ call' = [fn |-> "/player/items-by-song-ids", song_ids |-> song_ids,
                           results |-> results]
               /\ ret' = Ok(SeenValues(results, 1, <<>>))
    /\ UNCHANGED <<dataset, edits, song_state, index, prog, pc, status, runVars,
                   song, is_changed, histVars>>

InitRead ==
    /\ dataset = [r \in RowIds |-> RowWith(r, <<LongLyrics, <<>>>>, Lit(<<"h">>))]
    /\ edits = 0
    /\ song_state = {}
    /\ index \in ReadIndexes
    /\ prog = "ingest_qdrant"
    /\ pc = "idle"
    /\ status = "done"
    /\ ingest_limit = 999999999
    /\ scan_limit = None
    /\ scanned = 0
    /\ processed = 0
    /\ upserted_points = 0
    /\ song = NoSong
    /\ is_changed = FALSE
    /\ interrupted = {}
    /\ ingested_ok = {}
    /\ call = NoCall
    /\ ret = <<>>

ReadSongIds == {SongA, SongB, SongZ}

\* bodies with no, one and two song ids
RequestLengths == {0, 1, 2}

ReadRequests == UNION {[1..n -> ReadSongIds] : n \in RequestLengths}

NextRead == \E song_ids \in ReadRequests : ItemsBySongIds(song_ids)

SpecRead == InitRead /\ [][NextRead]_vars

\* the requested song ids that have a point in the index
RequestedIndexed ==
    {sid \in {call.song_ids[i] : i \in 1..Len(call.song_ids)} :
        PointsOfSong(index, sid) # {}}

\* C30: the items returned for a list of song ids are exactly one item for
\* every requested song id that has a point in the index, and no other.
C30_OneItemPerIndexedSong ==
    IsCallOf("/player/items-by-song-ids") =>
        /\ {ret.items[i].song_id : i \in 1..Len(ret.items)} = RequestedIndexed
        /\ Len(ret.items) = Cardinality(RequestedIndexed)

(***************************************************************************)
(* scripts/classify_with_web.py                                            *)
(*                                                                         *)
(* The record of the runs keeps the checkpoint file, a sequence of         *)
(* [song_id, status] lines, and the number of runs; ret is the report of   *)
(* the last run.  The flags are the defaults: no --only-missing, no        *)
(* --force, no --dry-run, no --fix-bad-youtube, no --limit, no --max-songs.*)
(***************************************************************************)
\* what ollama_chat and normalize_meta give for a song: metadata, a response
\* without usable JSON, a timeout, any other exception
LlmOutcomes == {"meta", "unparseable", "timeout", "exception"}

FailedStatuses == {"failed_parse", "failed_timeout", "failed_exception"}

\* load_checkpoint: the song ids of all lines of the file
load_checkpoint(lines) == {lines[i].song_id : i \in 1..Len(lines)}

\* get_unique_songs: the first point of every song in the order of the scroll
RECURSIVE get_unique_songs(_, _, _)
get_unique_songs(points, i, songs) ==
    IF i > Len(points) THEN songs
    ELSE LET sid == PayloadGet(points[i].payload, "song_id")
         IN  IF sid = None \/ \E j \in 1..Len(songs) : songs[j].song_id = sid
             THEN get_unique_songs(points, i + 1, songs)
             ELSE get_unique_songs(points, i + 1,
                     Append(songs, [song_id |-> sid,
                                    chunk_text |-> PayloadGet(points[i].payload,
                                                              "chunk_text")]))

\* upsert_payload_all_chunks with the fields of the classification
SetLlmMeta(idx, song_id) ==
    {IF p.payload.song_id = song_id
     THEN [p EXCEPT !.payload =
              [f \in DOMAIN p.payload \cup {"mood_llm", "genre_llm", "rhythm_llm",
                                            "meta_confidence", "meta_source",
                                            "meta_updated_at", "meta_why"} |->
                  IF f \in DOMAIN p.payload THEN p.payload[f] ELSE "llm"]]
     ELSE p : p \in idx}

CheckpointLine(song_id, st) == [song_id |-> song_id, status |-> st]

\* lines 468-594: the loop over the songs
RECURSIVE ClassifyLoop(_, _, _, _, _)
ClassifyLoop(songs, i, done, out, st) ==
    IF i > Len(songs) THEN st
    ELSE LET sid  == songs[i].song_id
             note == [st EXCEPT !.attempted = @ \cup {sid}]
         IN  IF sid \in done
             THEN ClassifyLoop(songs, i + 1, done, out, [st EXCEPT !.skipped = @ + 1])
             ELSE IF Strip(songs[i].chunk_text) = <<>>
             THEN ClassifyLoop(songs, i + 1, done, out,
                     [st EXCEPT !.skipped = @ + 1,
                                !.checkpoint = Append(@, CheckpointLine(sid,
                                                            "skipped_no_lyrics"))])
             ELSE IF out[sid] = "meta"
             THEN ClassifyLoop(songs, i + 1, done, out,
                     [note EXCEPT !.idx = SetLlmMeta(@, sid),
                                  !.updated = @ + 1,
                                  !.checkpoint = Append(@, CheckpointLine(sid, "updated"))])
             ELSE ClassifyLoop(songs, i + 1, done, out,
                     [note EXCEPT !.failed = @ + 1,
                                  !.checkpoint = Append(@, CheckpointLine(sid,
                                      IF out[sid] = "unparseable" THEN "failed_parse"
                                      ELSE IF out[sid] = "timeout" THEN "failed_timeout"
                                      ELSE "failed_exception"))])

\* no run of the script yet: no checkpoint file
NoCheckpoint == [fn |-> "classify_with_web.main", checkpoint |-> <<>>, runs |-> 0]

ClassifiedSongIds == {SongA, SongB}

\* python scripts/classify_with_web.py --collection ...
ClassifyWithWeb(out) ==
    LET env == IF call = NoCall THEN NoCheckpoint ELSE call
    IN  /\ IF call = NoCall THEN TRUE
           ELSE call.fn = "classify_with_web.main" /\ call.runs < MaxRuns
        /\ \E points \in ScrollSeqs(index, Cardinality(index)) :
              LET run == ClassifyLoop(get_unique_songs(points, 1, <<>>), 1,
                                      load_checkpoint(env.checkpoint), out,
                                      [checkpoint |-> env.checkpoint, idx |-> index,
                                       attempted |-> {}, updated |-> 0,
                                       skipped |-> 0, failed |-> 0])
              IN  /\ index' = run.idx
                  /\ call' = [env EXCEPT !.checkpoint = run.checkpoint, !.runs = @ + 1]
                  /\ ret' = [before |-> env.checkpoint, attempted |-> run.attempted,
                             updated |-> run.updated, skipped |-> run.skipped,
                             failed |-> run.failed]
        /\ UNCHANGED <<dataset, edits, song_state, prog, pc, status, runVars,
                       song, is_changed, histVars>>

InitClassify ==
    /\ dataset = [r \in RowIds |-> RowWith(r, <<LongLyrics, <<>>>>, Lit(<<"h">>))]
    /\ edits = 0
    /\ song_state = {}
    /\ index \in SUBSET {IndexPoint(SongA, Lit(<<"h">>), 0),
                         IndexPoint(SongA, Lit(<<"h">>), 1),
                         IndexPoint(SongB, Lit(<<"h">>), 0)}
    /\ prog = "ingest_qdrant"
    /\ pc = "idle"
    /\ status = "done"
    /\ ingest_limit = 999999999
    /\ scan_limit = None
    /\ scanned = 0
    /\ processed = 0
    /\ upserted_points = 0
    /\ song = NoSong
    /\ is_changed = FALSE
    /\ interrupted = {}
    /\ ingested_ok = {}
    /\ call = NoCall
    /\ ret = <<>>

NextClassify == \E out \in [ClassifiedSongIds -> LlmOutcomes] : ClassifyWithWeb(out)

SpecClassify == InitClassify /\ [][NextClassify]_vars

\* the statuses the checkpoint lines record for the song
StatusesOf(lines, song_id) ==
    {lines[i].status : i \in {j \in 1..Len(lines) : lines[j].song_id = song_id}}

\* C29: a run of classify_with_web attempts every indexed song whose
\* checkpoint lines record only failures, and attempts no song recorded as
\* updated; no song is recorded as updated twice.
C29_FailedRetriedUpdatedSkipped ==
    IsCallOf("classify_with_web.main") =>
        \A sid \in ClassifiedSongIds :
            /\ "updated" \in StatusesOf(ret.before, sid) => sid \notin ret.attempted
            /\ (/\ PointsOfSong(index, sid) # {}
                /\ StatusesOf(ret.before, sid) # {}
                /\ StatusesOf(ret.before, sid) \subseteq FailedStatuses)
                    => sid \in ret.attempted
            /\ Cardinality({i \in 1..Len(call.checkpoint) :
                               /\ call.checkpoint[i].song_id = sid
                               /\ call.checkpoint[i].status = "updated"}) <= 1

====
